---- MODULE Spec2Model ----
(***************************************************************************)
(* Deep-space telemetry relay (src/src/edge_processing.py) and the ground  *)
(* receiver (src/src/receiver.py).                                         *)
(*                                                                         *)
(* MissionControl.make_decision is the autonomous controller, the          *)
(* TelemetryProcessor.SendTelemetry handler is the relay pipeline with its *)
(* retry loop, ReceiverService._calculate_checksum the checksum and        *)
(* TelemetryCompressor.compress_telemetry the bandwidth filter.            *)
(***************************************************************************)
EXTENDS Integers, Sequences, FiniteSets, TLC

VARIABLES
    now,                 \* the wall clock read by time.time()
    spacecraft_history,  \* MissionControl.spacecraft_history: id -> history
    command_history,     \* MissionControl.command_history: id -> log
    decision,            \* the make_decision call in progress: arguments and result
    last_position,       \* TelemetryProcessor.last_position: id -> position
    anomaly_count,       \* TelemetryProcessor.anomaly_count: id -> count
    alert_levels,        \* TelemetryProcessor.alert_levels: id -> level
    bandwidth_mode,      \* TelemetryProcessor.bandwidth_mode
    relay,               \* the SendTelemetry call in progress at the relay
    checksum,            \* the _calculate_checksum call in progress at the receiver
    compression,         \* the compress_telemetry call in progress
    detection,           \* detect_anomalies calls on record: one kept, and the latest after it
    tracking,            \* the buffers of spacecraft_history: id -> positions, ..., modes
    power,               \* PowerState: capacity, mode, last update, the last gate check
    weather,             \* WeatherState: activity level, last update, the call in progress
    threads,             \* the make_decision calls of the server's worker threads
    comm,                \* DeepSpaceCommSimulator: distance, solar interference, the last call
    receiver,            \* the receiver's comm_stats and last_sequence_num, the reports handled
    simulator,           \* the spacecraft simulators: paused, sequence_num, the run loop
    dashboard            \* the dashboard's recent_telemetry, anomaly_history, decision_history

mc_vars == <<spacecraft_history, command_history, decision>>
tp_vars == <<last_position, anomaly_count, alert_levels, bandwidth_mode, relay>>
vars == <<now, spacecraft_history, command_history, decision, last_position,
          anomaly_count, alert_levels, bandwidth_mode, relay, checksum, compression,
          detection, tracking, power, weather, threads, comm, receiver, simulator,
          dashboard>>
ground_vars == <<comm, receiver, simulator, dashboard>>

\* ------------------------------------------------------------------ bounds

\* the clock when the process starts (time.time() is seconds since the epoch)
StartTime == 1000
\* a spacecraft receives no further report once its command log is this long
MaxCommandLog == 2
\* a spacecraft receives no further report once its strike counter is this high
MaxStrikes == 3
\* nor once the relay's anomaly counter for it is this high
MaxAnomalyCount == 3
\* the relay's anomaly counter stops at this value when only the counting is run
MaxCountedFindings == 7
\* the reports tracked for one spacecraft
MaxReports == 102
\* the highest sequence number of a report handled by the receiver
MaxSequenceNum == 4
\* the highest sequence number a simulated spacecraft reaches
MaxSimulatedSequence == 3
\* the number of messages the dashboard receives
MaxMessages == 404
\* the make_decision calls made for one spacecraft when its buffers are followed
MaxTrackedDecisions == 4
\* the reports tracked by calls that overlap on the thread pool
MaxOverlappingReports == 3
\* the seconds the power and weather models are run for
MaxElapsed == 720

\* ------------------------------------------------------- program constants

critical_energy == 15
energy_min == 30
temperature_max == 50
temperature_min == -50
CommandCooldown == 10
EnergyRecovered == 60
ThermalHigh == 40
ThermalLow == -40
ScienceEnergy == 70
ScienceRange == 1000
MaintenanceInterval == 300
MaintenanceDuration == 30
StrikeLimit == 3
max_history == 100

Spacecraft == {"Voyager-1"}
Modes == {"NORMAL", "SAFE", "SCIENCE", "COMMS", "MAINTENANCE"}

\* MissionControl.science_targets, in list order
science_targets ==
    << [name |-> "Interesting Nebula", position |-> <<5000, 2000, 3000>>, active |-> TRUE],
       [name |-> "Unusual Asteroid", position |-> <<-2000, -1000, 4000>>, active |-> TRUE],
       [name |-> "Radiation Anomaly", position |-> <<1000, -3000, 2000>>, active |-> TRUE] >>

\* ------------------------------------------------------------ MissionControl

\* the history record track_spacecraft creates on the first report of a spacecraft;
\* last_maintenance is read with history.get('last_maintenance', 0)
NewHistory == [last_command_time |-> 0, anomaly_count |-> 0, last_maintenance |-> 0]

TrackSpacecraft(sh, id) ==
    IF id \in DOMAIN sh THEN sh
    ELSE [i \in DOMAIN sh \cup {id} |-> IF i = id THEN NewHistory ELSE sh[i]]

\* 'critical' in anomaly.lower()
ContainsCritical(text) == text \in {"CRITICAL: coolant loss"}

AnyCritical(anomalies) ==
    \E i \in 1..Len(anomalies) : ContainsCritical(anomalies[i])

\* _create_command: the command returned to the caller
CreateCommand(id, type, key, value, stamp) ==
    [spacecraft_id |-> id, command_type |-> type,
     parameters |-> <<key, value>>, timestamp |-> stamp]

\* _create_command: the entry appended to command_history[id]
LogEntry(cmd) ==
    [type |-> cmd.command_type, params |-> cmd.parameters, time |-> cmd.timestamp]

ModeChange(id, mode, stamp) == CreateCommand(id, "MODE_CHANGE", "mode", mode, stamp)
Thermal(id, action, stamp) == CreateCommand(id, "THERMAL_CONTROL", "action", action, stamp)

Sq(x) == x * x

\* distance < 1000, compared on the squares
InRange(position, target) ==
    Sq(position[1] - target.position[1]) + Sq(position[2] - target.position[2])
        + Sq(position[3] - target.position[3]) < Sq(ScienceRange)

\* the loop over science_targets from target i on; draws[i] is random.random() < 0.2
\* at target i
RECURSIVE ScienceScan(_, _, _, _, _, _)
ScienceScan(i, id, current_mode, position, draws, stamp) ==
    IF i > Len(science_targets) THEN <<>>
    ELSE IF ~science_targets[i].active
         THEN ScienceScan(i + 1, id, current_mode, position, draws, stamp)
    ELSE IF InRange(position, science_targets[i])
         THEN IF current_mode # "SCIENCE"
              THEN <<ModeChange(id, "SCIENCE", stamp)>>
              ELSE ScienceScan(i + 1, id, current_mode, position, draws, stamp)
    ELSE IF current_mode = "SCIENCE" /\ draws[i]
         THEN <<ModeChange(id, "NORMAL", stamp)>>
    ELSE ScienceScan(i + 1, id, current_mode, position, draws, stamp)

\* the cooldown test made on the time of the last maintenance
CooldownActive_WrongStamp(history, current_time) ==
    history.last_maintenance > current_time - CommandCooldown

\* the cooldown test with the window left out
CooldownActive_NoWindow(history, current_time) ==
    history.last_command_time > current_time

\* the 10-second cooldown test of make_decision
CooldownActive(history, current_time) ==
    history.last_command_time > current_time - CommandCooldown

\* the critical test with the strike limit off by one
CriticalSituation_StrictLimit(anomalies, count, energy_level) ==
    \/ Len(anomalies) > 1
    \/ count > StrikeLimit
    \/ energy_level <= critical_energy
    \/ AnyCritical(anomalies)

\* the "handle critical anomalies first" test, on the counter already incremented
CriticalSituation(anomalies, count, energy_level) ==
    \/ Len(anomalies) > 1
    \/ count >= StrikeLimit
    \/ energy_level <= critical_energy
    \/ AnyCritical(anomalies)

\* the strike counter decremented without the floor
StrikeUpdate_NoFloor(count, anomalies) ==
    IF Len(anomalies) > 0 THEN count + 1 ELSE count - 1

\* the strike counter after the anomaly branch
StrikeUpdate(count, anomalies) ==
    IF Len(anomalies) > 0 THEN count + 1
    ELSE IF count - 1 > 0 THEN count - 1 ELSE 0

\* energy management with the recovery from SAFE whatever the strike counter
EnergyCommands_IgnoresStrikes(id, current_mode, energy_level, count, stamp) ==
    IF energy_level <= energy_min /\ current_mode # "SAFE"
    THEN <<ModeChange(id, "SAFE", stamp)>>
    ELSE IF current_mode = "SAFE" /\ energy_level > EnergyRecovered
    THEN <<ModeChange(id, "NORMAL", stamp)>>
    ELSE <<>>

\* energy management with the low-energy entry strictly below energy_min
EnergyCommands_StrictMin(id, current_mode, energy_level, count, stamp) ==
    IF energy_level < energy_min /\ current_mode # "SAFE"
    THEN <<ModeChange(id, "SAFE", stamp)>>
    ELSE IF current_mode = "SAFE" /\ energy_level > EnergyRecovered /\ count = 0
    THEN <<ModeChange(id, "NORMAL", stamp)>>
    ELSE <<>>

\* energy management with the recovery tested against the science threshold
EnergyCommands_WrongThreshold(id, current_mode, energy_level, count, stamp) ==
    IF energy_level <= energy_min /\ current_mode # "SAFE"
    THEN <<ModeChange(id, "SAFE", stamp)>>
    ELSE IF current_mode = "SAFE" /\ energy_level > ScienceEnergy /\ count = 0
    THEN <<ModeChange(id, "NORMAL", stamp)>>
    ELSE <<>>

\* energy management: low-energy entry, else recovery from SAFE
EnergyCommands(id, current_mode, energy_level, count, stamp) ==
    IF energy_level <= energy_min /\ current_mode # "SAFE"
    THEN <<ModeChange(id, "SAFE", stamp)>>
    ELSE IF current_mode = "SAFE" /\ energy_level > EnergyRecovered /\ count = 0
    THEN <<ModeChange(id, "NORMAL", stamp)>>
    ELSE <<>>

\* temperature management with the thresholds themselves included
ThermalCommands_Inclusive(id, temperature, stamp) ==
    IF temperature >= ThermalHigh /\ temperature <= temperature_max
    THEN <<Thermal(id, "COOLING", stamp)>>
    ELSE IF temperature <= ThermalLow /\ temperature >= temperature_min
    THEN <<Thermal(id, "HEATING", stamp)>>
    ELSE <<>>

\* temperature management
ThermalCommands(id, temperature, stamp) ==
    IF temperature > ThermalHigh /\ temperature < temperature_max
    THEN <<Thermal(id, "COOLING", stamp)>>
    ELSE IF temperature < ThermalLow /\ temperature > temperature_min
    THEN <<Thermal(id, "HEATING", stamp)>>
    ELSE <<>>

\* science opportunity detection
ScienceCommands(id, current_mode, energy_level, position, draws, stamp) ==
    IF current_mode \in {"NORMAL", "SCIENCE"} /\ energy_level > ScienceEnergy
    THEN ScienceScan(1, id, current_mode, position, draws, stamp)
    ELSE <<>>

\* scheduled maintenance without the test of the interval
MaintenanceDue_NoInterval(history, current_mode, energy_level, current_time) ==
    /\ current_mode # "SAFE"
    /\ current_mode # "MAINTENANCE"
    /\ energy_level > EnergyRecovered

\* scheduled maintenance is due
MaintenanceDue(history, current_mode, energy_level, current_time) ==
    /\ current_time - history.last_maintenance > MaintenanceInterval
    /\ current_mode # "SAFE"
    /\ current_mode # "MAINTENANCE"
    /\ energy_level > EnergyRecovered

\* return from maintenance without the wait
MaintenanceOver_NoWait(last_maintenance, current_mode, current_time) ==
    current_mode = "MAINTENANCE"

\* return from maintenance, tested on the history after the scheduling step
MaintenanceOver(last_maintenance, current_mode, current_time) ==
    current_mode = "MAINTENANCE" /\ last_maintenance < current_time - MaintenanceDuration

\* make_decision after the cooldown gate and the critical branch
RoutineDecision(history, t, count, current_time, draws, stamp) ==
    LET id == t.spacecraft_id
        due == MaintenanceDue(history, t.mode, t.energy_level, current_time)
        lm == IF due THEN current_time ELSE history.last_maintenance
        commands ==
            EnergyCommands(id, t.mode, t.energy_level, count, stamp)
            \o ThermalCommands(id, t.temperature, stamp)
            \o ScienceCommands(id, t.mode, t.energy_level, t.position, draws, stamp)
            \o (IF due THEN <<ModeChange(id, "MAINTENANCE", stamp)>> ELSE <<>>)
            \o (IF MaintenanceOver(lm, t.mode, current_time)
                THEN <<ModeChange(id, "NORMAL", stamp)>> ELSE <<>>)
    IN [commands |-> commands,
        history |-> [last_command_time |->
                         IF commands # <<>> THEN current_time
                         ELSE history.last_command_time,
                     anomaly_count |-> count,
                     last_maintenance |-> lm]]

\* make_decision past the gate with the critical branch leaving last_command_time
\* as it was
AfterGate_StampForgotten(history, t, anomalies, current_time, draws, stamp) ==
    LET count == StrikeUpdate(history.anomaly_count, anomalies)
    IN IF /\ Len(anomalies) > 0
          /\ CriticalSituation(anomalies, count, t.energy_level)
          /\ t.mode # "SAFE"
       THEN [commands |-> <<ModeChange(t.spacecraft_id, "SAFE", stamp)>>,
             history |-> [history EXCEPT !.anomaly_count = count]]
       ELSE RoutineDecision(history, t, count, current_time, draws, stamp)

\* make_decision past the gate with the critical branch going on to the routine
\* rules after its command
AfterGate_NoEarlyReturn(history, t, anomalies, current_time, draws, stamp) ==
    LET count == StrikeUpdate(history.anomaly_count, anomalies)
        routine == RoutineDecision(history, t, count, current_time, draws, stamp)
    IN IF /\ Len(anomalies) > 0
          /\ CriticalSituation(anomalies, count, t.energy_level)
          /\ t.mode # "SAFE"
       THEN [commands |-> <<ModeChange(t.spacecraft_id, "SAFE", stamp)>>
                            \o routine.commands,
             history |-> [routine.history EXCEPT !.last_command_time = current_time]]
       ELSE routine

\* make_decision past the cooldown gate: the strike counter, the critical branch or
\* the routine rules
AfterGate(history, t, anomalies, current_time, draws, stamp) ==
    LET count == StrikeUpdate(history.anomaly_count, anomalies)
    IN IF /\ Len(anomalies) > 0
          /\ CriticalSituation(anomalies, count, t.energy_level)
          /\ t.mode # "SAFE"
       THEN [commands |-> <<ModeChange(t.spacecraft_id, "SAFE", stamp)>>,
             history |-> [history EXCEPT !.anomaly_count = count,
                                         !.last_command_time = current_time]]
       ELSE RoutineDecision(history, t, count, current_time, draws, stamp)

\* make_decision that counts the findings before the cooldown test
Decide_CountsBeforeGate(history, t, anomalies, current_time, draws, stamp) ==
    IF CooldownActive(history, current_time)
    THEN [commands |-> <<>>,
          history |-> [history EXCEPT !.anomaly_count = StrikeUpdate(@, anomalies)]]
    ELSE AfterGate(history, t, anomalies, current_time, draws, stamp)

\* make_decision on a tracked spacecraft: the commands returned and the history left
Decide(history, t, anomalies, current_time, draws, stamp) ==
    IF CooldownActive(history, current_time)
    THEN [commands |-> <<>>, history |-> history]
    ELSE AfterGate(history, t, anomalies, current_time, draws, stamp)

RECURSIVE LogAll(_)
LogAll(commands) ==
    IF commands = <<>> THEN <<>>
    ELSE <<LogEntry(Head(commands))>> \o LogAll(Tail(commands))

LogOf(ch, id) == IF id \in DOMAIN ch THEN ch[id] ELSE <<>>
CommandLog(id) == LogOf(command_history, id)

\* ------------------------------------------------------------------ inputs

Energies == {15, 30, 65, 75}
Temperatures == {-45, 0, 45}
Positions == { <<0, 0, 0>>, <<5000, 2000, 3900>> }
AnomalyLists ==
    { <<>>, <<"Temperature out of range">>, <<"CRITICAL: coolant loss">>,
      <<"Temperature out of range", "Velocity exceeds maximum">> }
Draws == { [i \in 1..Len(science_targets) |-> b] : b \in BOOLEAN }
\* seconds after the start at which the clock is read
ClockOffsets == {0, 10, 310}

NoDecision == [called |-> FALSE]

\* ----------------------------------------------------------------- actions

NoCall == [called |-> FALSE]
NoRelay == [pc |-> "idle"]

NoDetection == [kept |-> <<>>, latest |-> <<>>]

\* the worker threads of the gRPC server that serve calls at the same time
Workers == {"worker-1", "worker-2"}
\* a worker thread with no call to serve
IdleThread == [pc |-> "idle"]

\* PowerBudget: the capacity a full store holds, the generation rate and the
\* consumption rate of each mode, per second
max_capacity == 600
generation_rate == 2
consumption_rate ==
    [idle |-> 1, telemetry_collection |-> 2, data_transmission |-> 5]
\* the reserve margin is reserve_percent % of max_capacity
reserve_percent == 10

\* PowerState after construction: a full store, idle
InitialPower ==
    [capacity |-> max_capacity, raw |-> max_capacity, mode |-> "idle",
     last_update |-> StartTime, gate |-> <<>>]

\* WeatherModel: the seconds between two updates of the activity level
update_interval == 180
ActivityLevels == {"normal", "active", "storm"}

\* WeatherState after construction
InitialWeather == [activity |-> "normal", last_update |-> StartTime, returned |-> <<>>]
\* no spacecraft tracked yet
NoTracking == [buffers |-> <<>>, calls |-> <<>>]

\* DeepSpaceCommSimulator(distance_au=10.0): the distance in AU, the solar
\* interference in hundredths, no call made yet
InitialComm == [distance_au |-> 10, solar_interference |-> 0, called |-> FALSE]

\* the receiver after start: comm_stats, no last_sequence_num attribute yet (read
\* with getattr(self, 'last_sequence_num', 0)); and on record the number of reports
\* handled, the last sequence number received from each spacecraft, the last report
InitialReceiver ==
    [packets_received |-> 0, packets_lost |-> 0, last_sequence_num |-> 0,
     handled |-> 0, last_of |-> <<>>, report |-> <<>>]
\* the spacecraft of run(), in the order of spacecraft_list
spacecraft_list == <<"DeepSpace-1", "Voyager-4">>

\* the simulators after construction (__init__ ends with one update(), so that
\* sequence_num is 1), the send loop before its first spacecraft, no telemetry sent,
\* no control message handled
InitialSimulator ==
    [paused |-> [i \in 1..Len(spacecraft_list) |-> FALSE],
     sequence_num |-> [i \in 1..Len(spacecraft_list) |-> 1],
     sent |-> [i \in 1..Len(spacecraft_list) |-> 0],
     sc |-> 1, at |-> "paused", message |-> <<>>]
\* the dashboard's three stores at start, and on record the number of messages
\* processed and of entries appended to each store
InitialDashboard ==
    [recent_telemetry |-> <<>>, anomaly_history |-> <<>>, decision_history |-> <<>>,
     received |-> 0, telemetry_in |-> <<>>, anomalies_in |-> 0, decisions_in |-> 0]

Init ==
    /\ now = StartTime
    /\ spacecraft_history = <<>>
    /\ command_history = <<>>
    /\ decision = NoDecision
    /\ last_position = <<>>
    /\ anomaly_count = <<>>
    /\ alert_levels = <<>>
    /\ bandwidth_mode = "normal"
    /\ relay = NoRelay
    /\ checksum = NoCall
    /\ compression = NoCall
    /\ detection = NoDetection
    /\ tracking = NoTracking
    /\ power = InitialPower
    /\ weather = InitialWeather
    /\ threads = [w \in Workers |-> IdleThread]
    /\ comm = InitialComm
    /\ receiver = InitialReceiver
    /\ simulator = InitialSimulator
    /\ dashboard = InitialDashboard

\* time passes between calls
Tick ==
    /\ ~decision.called
    /\ \E d \in ClockOffsets :
          /\ StartTime + d > now
          /\ now' = StartTime + d
    /\ UNCHANGED <<mc_vars, tp_vars, checksum, compression, detection, tracking, power, weather, threads,
                   ground_vars>>

\* the reports a spacecraft may still send within the bounds of the model
WithinBounds(id) ==
    /\ Len(CommandLog(id)) < MaxCommandLog
    /\ TrackSpacecraft(spacecraft_history, id)[id].anomaly_count < MaxStrikes

\* make_decision(t, anomalies) at the clock reading now: the histories it leaves and
\* the call with its result
MakeDecisionCall(t, anomalies, draws) ==
    LET id == t.spacecraft_id
        tracked == TrackSpacecraft(spacecraft_history, id)
    IN \E r \in {Decide(tracked[id], t, anomalies, now, draws, now)} :
          /\ spacecraft_history' = [tracked EXCEPT ![id] = r.history]
          /\ command_history' =
                 IF r.commands = <<>> THEN command_history
                 ELSE [i \in DOMAIN command_history \cup {id} |->
                         IF i = id THEN CommandLog(id) \o LogAll(r.commands)
                         ELSE command_history[i]]
          /\ decision' = [called |-> TRUE, telemetry |-> t, anomalies |-> anomalies,
                          current_time |-> now, before |-> tracked[id],
                          after |-> r.history, commands |-> r.commands]

\* one call of MissionControl.make_decision(telemetry, anomalies)
MakeDecision ==
    \E id \in Spacecraft, mode \in Modes, energy \in Energies,
       temp \in Temperatures, pos \in Positions, anomalies \in AnomalyLists,
       draws \in Draws :
       /\ ~decision.called
       /\ WithinBounds(id)
       /\ MakeDecisionCall([spacecraft_id |-> id, mode |-> mode,
                            energy_level |-> energy, temperature |-> temp,
                            position |-> pos], anomalies, draws)
       /\ UNCHANGED <<now, tp_vars, checksum, compression, detection, tracking, power, weather, threads,
                   ground_vars>>

\* the temperatures around the thresholds of the thermal rule
ThermalTemperatures == {-51, -50, -49, -41, -40, -39, 0, 39, 40, 41, 49, 50, 51}

\* one call of make_decision on a report whose temperature is at or near a threshold
ThermalDecision ==
    \E id \in Spacecraft, mode \in {"NORMAL", "SAFE"}, energy \in {30, 65},
       temp \in ThermalTemperatures,
       anomalies \in {<<>>, <<"Temperature out of range">>} :
       /\ ~decision.called
       /\ WithinBounds(id)
       /\ MakeDecisionCall([spacecraft_id |-> id, mode |-> mode,
                            energy_level |-> energy, temperature |-> temp,
                            position |-> <<0, 0, 0>>], anomalies,
                           [i \in 1..Len(science_targets) |-> FALSE])
       /\ UNCHANGED <<now, tp_vars, checksum, compression, detection, tracking, power,
                      weather, threads,
                   ground_vars>>

\* a MODE_CHANGE to MAINTENANCE has been issued to the spacecraft
MaintenanceCommanded(id) ==
    \E i \in 1..Len(CommandLog(id)) :
        /\ CommandLog(id)[i].type = "MODE_CHANGE"
        /\ CommandLog(id)[i].params = <<"mode", "MAINTENANCE">>

\* the mode of a spacecraft that goes into maintenance when told to and keeps
\* reporting MAINTENANCE from then on
ReportedMode(id) == IF MaintenanceCommanded(id) THEN "MAINTENANCE" ELSE "NORMAL"

\* the last reading of the clock
LastReading == StartTime + 310

\* make_decision on a report of that spacecraft
MaintenanceReport(anomalies) ==
    \E id \in Spacecraft, energy \in {15, 65}, temp \in {0, 45} :
       /\ ~decision.called
       /\ MakeDecisionCall([spacecraft_id |-> id, mode |-> ReportedMode(id),
                            energy_level |-> energy, temperature |-> temp,
                            position |-> <<0, 0, 0>>], anomalies,
                           [i \in 1..Len(science_targets) |-> FALSE])
       /\ UNCHANGED <<now, tp_vars, checksum, compression, detection, tracking, power,
                      weather, threads,
                   ground_vars>>

\* a report without findings
CleanReport == MaintenanceReport(<<>>)

\* a report with a finding; the clock stops at its last reading, which is kept for
\* the reports without findings
ReportWithFinding ==
    /\ now < LastReading
    /\ MaintenanceReport(<<"Temperature out of range">>)

\* the caller takes the returned commands
Return ==
    /\ decision.called
    /\ decision' = NoDecision
    /\ UNCHANGED <<now, spacecraft_history, command_history, tp_vars, checksum,
                   compression, detection, tracking, power, weather, threads,
                   ground_vars>>

MCNext == Tick \/ MakeDecision \/ Return

\* MissionControl driven directly, one make_decision call after another
MCSpec == Init /\ [][MCNext]_vars

MaintenanceNext == Tick \/ CleanReport \/ ReportWithFinding \/ Return

\* a spacecraft in maintenance: time passes, reports keep coming and some of them
\* carry no findings
MaintenanceSpec ==
    /\ Init /\ [][MaintenanceNext]_vars
    /\ SF_vars(Tick) /\ SF_vars(CleanReport) /\ WF_vars(Return)

ThermalNext == Tick \/ ThermalDecision \/ Return

\* MissionControl deciding on reports with temperatures around the thermal thresholds
ThermalSpec == Init /\ [][ThermalNext]_vars

\* ------------------------------------------------------------- the receiver

\* a float: a number or not-a-number
NaN == [nan |-> TRUE, v |-> 0]
Float(i) == [nan |-> FALSE, v |-> i]

\* Python values and their truth value: False, 0 and 0.0 are false, NaN is true
PyBool(b) == [kind |-> "bool", b |-> b, f |-> Float(0)]
PyNum(f) == [kind |-> "num", b |-> FALSE, f |-> f]
Truthy(x) == IF x.kind = "bool" THEN x.b ELSE (x.f.nan \/ x.f.v # 0)
\* x and y, x or y
PyAnd(x, y) == IF Truthy(x) THEN y ELSE x
PyOr(x, y) == IF Truthy(x) THEN x ELSE y
\* a bool counts as 0 or 1 in a sum
AsFloat(x) == IF x.kind = "bool" THEN Float(IF x.b THEN 1 ELSE 0) ELSE x.f

FloatAdd(a, b) == IF a.nan \/ b.nan THEN NaN ELSE Float(a.v + b.v)

\* math.isnan(v) and 0 or v
ChecksumTerm(v) == PyOr(PyAnd(PyBool(v.nan), PyNum(Float(0))), PyNum(v))

\* sum(...) over the values from index i on, starting from acc
RECURSIVE SumTerms(_, _, _)
SumTerms(vals, i, acc) ==
    IF i > Len(vals) THEN acc
    ELSE SumTerms(vals, i + 1, FloatAdd(acc, AsFloat(ChecksumTerm(vals[i]))))

\* _calculate_checksum on the seven values position x/y/z, velocity x/y/z, temperature
CalculateChecksum(vals) == SumTerms(vals, 1, Float(0))

\* the vals list of _calculate_checksum for a telemetry message with numeric fields
ChecksumFields(t) ==
    << Float(t.position[1]), Float(t.position[2]), Float(t.position[3]),
       Float(t.velocity[1]), Float(t.velocity[2]), Float(t.velocity[3]),
       Float(t.temperature) >>

\* ReceiverService.SendTelemetry: the message returned, its temperature field
\* carrying the checksum of the request as received
ReceiverReply(received) ==
    [spacecraft_id |-> received.spacecraft_id,
     position |-> received.position, velocity |-> received.velocity,
     temperature |-> CalculateChecksum(ChecksumFields(received))]

\* ----------------------------------------------------------- the compressor

field_priorities ==
    [spacecraft_id |-> "critical", timestamp |-> "critical", temperature |-> "high",
     position_x |-> "medium", position_y |-> "medium", position_z |-> "medium",
     velocity_x |-> "low", velocity_y |-> "low", velocity_z |-> "low",
     radiation_level |-> "medium", energy_level |-> "high", mode |-> "high"]

\* decimal places per priority
precision == [high |-> 4, medium |-> 2, low |-> 1]

BandwidthModes == {"critical", "low", "normal", "high"}

\* dictionary values: a float, in units of 10^-5, or a string
FloatDigits == 5
Num(v) == [float |-> TRUE, v |-> v, s |-> ""]
Str(s) == [float |-> FALSE, v |-> 0, s |-> s]

RECURSIVE Pow10(_)
Pow10(n) == IF n = 0 THEN 1 ELSE 10 * Pow10(n - 1)

\* round(value, digits): to the nearest multiple of 10^-digits, a tie to the even one
Round(v, digits) ==
    LET q == Pow10(FloatDigits - digits)
        r == v % q
        base == v - r
    IN IF 2 * r < q THEN base
       ELSE IF 2 * r > q THEN base + q
       ELSE IF (base \div q) % 2 = 0 THEN base ELSE base + q

\* the filter with the low mode keeping the medium fields too
FilterFields_LowKeepsMedium(data_dict, bandwidth) ==
    IF bandwidth = "critical"
    THEN {f \in DOMAIN field_priorities :
            field_priorities[f] = "critical" /\ f \in DOMAIN data_dict}
    ELSE IF bandwidth \in {"low", "normal"}
    THEN {f \in DOMAIN field_priorities :
            field_priorities[f] # "low" /\ f \in DOMAIN data_dict}
    ELSE DOMAIN data_dict

\* the filter with the normal mode keeping the critical and medium fields only
FilterFields_NormalDropsHigh(data_dict, bandwidth) ==
    IF bandwidth = "critical"
    THEN {f \in DOMAIN field_priorities :
            field_priorities[f] = "critical" /\ f \in DOMAIN data_dict}
    ELSE IF bandwidth = "low"
    THEN {f \in DOMAIN field_priorities :
            field_priorities[f] \in {"critical", "high"} /\ f \in DOMAIN data_dict}
    ELSE IF bandwidth = "normal"
    THEN {f \in DOMAIN field_priorities :
            field_priorities[f] \in {"critical", "medium"} /\ f \in DOMAIN data_dict}
    ELSE DOMAIN data_dict

\* the fields compress_telemetry keeps for a bandwidth mode
FilterFields(data_dict, bandwidth) ==
    IF bandwidth = "critical"
    THEN {f \in DOMAIN field_priorities :
            field_priorities[f] = "critical" /\ f \in DOMAIN data_dict}
    ELSE IF bandwidth = "low"
    THEN {f \in DOMAIN field_priorities :
            field_priorities[f] \in {"critical", "high"} /\ f \in DOMAIN data_dict}
    ELSE IF bandwidth = "normal"
    THEN {f \in DOMAIN field_priorities :
            field_priorities[f] # "low" /\ f \in DOMAIN data_dict}
    ELSE DOMAIN data_dict

\* the precision rounding of one kept field
RoundField(field, value) ==
    LET priority == IF field \in DOMAIN field_priorities
                    THEN field_priorities[field] ELSE "medium"
    IN IF value.float /\ priority \in DOMAIN precision
       THEN Num(Round(value.v, precision[priority]))
       ELSE value

\* compress_telemetry up to the serialisation: the dictionary that is dumped to
\* JSON and handed to zlib
CompressTelemetry(data_dict, bandwidth) ==
    [f \in FilterFields(data_dict, bandwidth) |-> RoundField(f, data_dict[f])]

\* --------------------------------------------------------- TelemetryProcessor

threshold_temperature_min == -50
threshold_temperature_max == 50
velocity_max == 15
position_change_max == 50
radiation_max == 1000
max_retries == 3
RetryWait == 1
PrimaryAddress == "localhost:50053"
BackupAddress == "localhost:50054"

Fleet == {"Voyager-1", "Voyager-2"}

\* the reports that reach the relay
RelayRequests ==
    { [spacecraft_id |-> id, timestamp |-> 0, position |-> <<0, 0, 0>>,
       velocity |-> <<0, 0, 0>>, temperature |-> temp, radiation_level |-> 0,
       energy_level |-> energy, mode |-> mode] :
      id \in Fleet, temp \in {20, 60}, energy \in {65},
      mode \in {"NORMAL", "SAFE"} }
\* the reports of one spacecraft
RetryRequests == {r \in RelayRequests : r.spacecraft_id = "Voyager-1"}
\* the values of a telemetry field at the receiver
ChecksumInputs == {NaN, Float(0), Float(3), Float(-2)}
\* the fields a report may carry: those of the priority table and the alert level
ReportFields == DOMAIN field_priorities \cup {"alert_level"}
\* float values of a report, in units of 10^-5
FloatSamples == {1234567, -98765}
\* the Gaussian samples apply_noise draws for one report
Noises ==
    { [position |-> <<0, 0, 0>>, velocity |-> <<0, 0, 0>>, temperature |-> 0,
       radiation_level |-> 0],
      [position |-> <<1, 0, -1>>, velocity |-> <<0, 1, 0>>, temperature |-> -1,
       radiation_level |-> 1] }

\* apply_noise on a number: the Gaussian sample is added
ApplyNoise(data, noise) == data + noise

\* the processed copy built from the request: the position offsets and the noise
ProcessedTelemetry(request, noise) ==
    [spacecraft_id |-> request.spacecraft_id,
     timestamp |-> request.timestamp,
     position |-> << ApplyNoise(request.position[1] + 1, noise.position[1]),
                     ApplyNoise(request.position[2] + 1, noise.position[2]),
                     ApplyNoise(request.position[3] + 1, noise.position[3]) >>,
     velocity |-> << ApplyNoise(request.velocity[1], noise.velocity[1]),
                     ApplyNoise(request.velocity[2], noise.velocity[2]),
                     ApplyNoise(request.velocity[3], noise.velocity[3]) >>,
     temperature |-> ApplyNoise(request.temperature, noise.temperature),
     radiation_level |-> ApplyNoise(request.radiation_level, noise.radiation_level),
     energy_level |-> request.energy_level,
     mode |-> request.mode,
     alert_level |-> ""]

\* detect_anomalies with the position compared against the last position of every
\* spacecraft on record
DetectAnomalies_AnyCraft(t, positions) ==
    (IF t.temperature < threshold_temperature_min
        \/ t.temperature > threshold_temperature_max
     THEN <<"Temperature out of range">> ELSE <<>>)
    \o (IF Sq(t.velocity[1]) + Sq(t.velocity[2]) + Sq(t.velocity[3]) > Sq(velocity_max)
        THEN <<"Velocity exceeds maximum">> ELSE <<>>)
    \o (IF \E i \in DOMAIN positions :
               /\ Sq(t.position[1] - positions[i][1]) + Sq(t.position[2] - positions[i][2])
                    + Sq(t.position[3] - positions[i][3]) > Sq(position_change_max)
               /\ positions[i][1] + positions[i][2] + positions[i][3] # 0
        THEN <<"Abnormal position change">> ELSE <<>>)
    \o (IF t.radiation_level > radiation_max
        THEN <<"Radiation level too high">> ELSE <<>>)

\* detect_anomalies; the figures formatted into the last two texts are left out
DetectAnomalies(t, positions) ==
    LET last_pos == positions[t.spacecraft_id]
        change == Sq(t.position[1] - last_pos[1]) + Sq(t.position[2] - last_pos[2])
                    + Sq(t.position[3] - last_pos[3])
    IN (IF t.temperature < threshold_temperature_min
           \/ t.temperature > threshold_temperature_max
        THEN <<"Temperature out of range">> ELSE <<>>)
       \o (IF Sq(t.velocity[1]) + Sq(t.velocity[2]) + Sq(t.velocity[3]) > Sq(velocity_max)
           THEN <<"Velocity exceeds maximum">> ELSE <<>>)
       \o (IF /\ t.spacecraft_id \in DOMAIN positions
              /\ change > Sq(position_change_max)
              /\ last_pos[1] + last_pos[2] + last_pos[3] # 0
           THEN <<"Abnormal position change">> ELSE <<>>)
       \o (IF t.radiation_level > radiation_max
           THEN <<"Radiation level too high">> ELSE <<>>)

\* a dictionary entry added for a spacecraft seen for the first time
WithDefault(map, id, value) ==
    IF id \in DOMAIN map THEN map
    ELSE [i \in DOMAIN map \cup {id} |-> IF i = id THEN value ELSE map[i]]

\* the anomaly counter of the spacecraft after the report
CountAfter(count, anomalies) ==
    IF anomalies # <<>> THEN count + 1
    ELSE IF count - 1 > 0 THEN count - 1 ELSE 0

\* the alert level that is not set back when the counter is back at 0
AlertAfter_NoReset(alert, count, anomalies) ==
    IF anomalies # <<>>
    THEN IF count > 5 THEN "CRITICAL" ELSE IF count > 2 THEN "WARNING" ELSE alert
    ELSE alert

\* the alert level of the spacecraft after the report, from the updated counter
AlertAfter(alert, count, anomalies) ==
    IF anomalies # <<>>
    THEN IF count > 5 THEN "CRITICAL" ELSE IF count > 2 THEN "WARNING" ELSE alert
    ELSE IF count = 0 THEN "NOMINAL" ELSE alert

\* the relay's bandwidth mode after the report, from the updated counter
BandwidthAfter(bandwidth, count, anomalies) ==
    IF anomalies # <<>>
    THEN IF count > 5 THEN "critical" ELSE IF count > 2 THEN "low" ELSE bandwidth
    ELSE IF count = 0 THEN "normal" ELSE bandwidth

\* ListFields(): the fields of the message that are set, by name
DataDict(t) ==
    LET all == [spacecraft_id |-> Str(t.spacecraft_id),
                timestamp |-> Num(t.timestamp * Pow10(FloatDigits)),
                position_x |-> Num(t.position[1] * Pow10(FloatDigits)),
                position_y |-> Num(t.position[2] * Pow10(FloatDigits)),
                position_z |-> Num(t.position[3] * Pow10(FloatDigits)),
                velocity_x |-> Num(t.velocity[1] * Pow10(FloatDigits)),
                velocity_y |-> Num(t.velocity[2] * Pow10(FloatDigits)),
                velocity_z |-> Num(t.velocity[3] * Pow10(FloatDigits)),
                temperature |-> Num(t.temperature * Pow10(FloatDigits)),
                radiation_level |-> Num(t.radiation_level * Pow10(FloatDigits)),
                energy_level |-> Num(t.energy_level * Pow10(FloatDigits)),
                mode |-> Str(t.mode),
                alert_level |-> Str(t.alert_level)]
        set == {f \in DOMAIN all : all[f] # Num(0) /\ all[f] # Str("")}
    IN [f \in set |-> all[f]]

\* the TelemetryResponse returned to the spacecraft
Response(commands, message) ==
    [status |-> IF commands # <<>> THEN "ACK_WITH_COMMANDS" ELSE "ACK",
     message |-> message[commands # <<>>], commands |-> commands]

\* the message of the response returned after a simulated packet loss
ReceivedMessage ==
    [b \in BOOLEAN |-> IF b THEN "Telemetry received with commands"
                              ELSE "Telemetry received with no commands"]

\* the message of the response returned after the retry loop
ProcessedMessage ==
    [b \in BOOLEAN |-> IF b THEN "Telemetry processed successfully with commands"
                              ELSE "Telemetry processed successfully"]

NoResponse == [status |-> "", message |-> "", commands |-> <<>>]

\* a lost packet that is sent on to the receiver all the same
AfterLossDraw_Forwards(lost) == "forward"

\* where SendTelemetry goes after simulate_packet_loss: it returns when the packet
\* is lost and enters the retry loop otherwise
AfterLossDraw(lost) == IF lost THEN "done" ELSE "forward"

\* the alert level written to the processed copy together with the mode
WithAlertLevel_OverwritesMode(measured, alert) ==
    [measured EXCEPT !.alert_level = alert,
                     !.mode = IF alert = "NOMINAL" THEN @ ELSE "SAFE"]

\* processed_telemetry.alert_level = self.alert_levels[spacecraft_id]
WithAlertLevel(measured, alert) == [measured EXCEPT !.alert_level = alert]

\* SendTelemetry from its start to the packet-loss draw
ReceiveWith(requests, noises) ==
    \E unstamped \in requests, noise \in noises, draws \in Draws, lost \in BOOLEAN :
       LET request == [unstamped EXCEPT !.timestamp = now]
           id == request.spacecraft_id
           positions == WithDefault(last_position, id, <<0, 0, 0>>)
           counts == WithDefault(anomaly_count, id, 0)
           alerts == WithDefault(alert_levels, id, "NOMINAL")
       IN /\ relay.pc = "idle"
          /\ ~decision.called
          /\ WithinBounds(id)
          /\ counts[id] < MaxAnomalyCount
          /\ \E measured \in {ProcessedTelemetry(request, noise)} :
             \E anomalies \in {DetectAnomalies(measured, positions)} :
             \E count \in {CountAfter(counts[id], anomalies)} :
             \E alert \in {AlertAfter(alerts[id], count, anomalies)} :
             \E processed \in {WithAlertLevel(measured, alert)} :
                /\ anomaly_count' = [counts EXCEPT ![id] = count]
                /\ alert_levels' = [alerts EXCEPT ![id] = alert]
                /\ bandwidth_mode' = BandwidthAfter(bandwidth_mode, count, anomalies)
                /\ last_position' = [positions EXCEPT ![id] = processed.position]
                /\ MakeDecisionCall(processed, anomalies, draws)
                /\ relay' =
                     [pc |-> AfterLossDraw(lost),
                      request |-> request, processed |-> processed,
                      anomalies |-> anomalies, commands |-> decision'.commands,
                      bandwidth |-> bandwidth_mode',
                      payload |-> CompressTelemetry(DataDict(processed), bandwidth_mode'),
                      lost |-> lost, attempt |-> 0, sends |-> <<>>, waits |-> <<>>,
                      forwarded |-> FALSE, raised |-> FALSE,
                      response |-> IF lost
                                   THEN Response(decision'.commands, ReceivedMessage)
                                   ELSE NoResponse]
          /\ UNCHANGED <<now, checksum, compression, tracking, power, weather, threads,
                   ground_vars>>

\* the message as the receiver parses it: intact, or damaged on the channel
AsReceived(sent, damaged) ==
    IF damaged THEN [sent EXCEPT !.temperature = sent.temperature + 1] ELSE sent

\* the retry loop goes on after a failed pass
RetryAgain_OneMore(attempt) == attempt <= max_retries - 1

\* the retry loop goes on after a failed pass: range(max_retries) has a next value
RetryAgain(attempt) == attempt < max_retries - 1

\* SendTelemetry from its start to the packet-loss draw, any noise sample drawn
ReceiveFrom(requests) == ReceiveWith(requests, Noises)

\* a pass of the retry loop whose call returned: the loop is left
AttemptReturned(r, reply) ==
    [r EXCEPT !.sends = Append(@, [address |-> PrimaryAddress, ok |-> TRUE,
                                   sent |-> r.processed, reply |-> <<reply>>]),
              !.forwarded = TRUE,
              !.pc = "done",
              !.response = Response(r.commands, ProcessedMessage)]

\* a failed last pass that lets the exception escape the handler
AttemptRaised_Escapes(r) ==
    [r EXCEPT !.sends = Append(@, [address |-> PrimaryAddress, ok |-> FALSE,
                                   sent |-> r.processed, reply |-> <<>>]),
              !.attempt = @ + 1,
              !.waits = IF RetryAgain(r.attempt) THEN Append(@, RetryWait) ELSE @,
              !.pc = IF RetryAgain(r.attempt) THEN "forward" ELSE "done",
              !.raised = ~RetryAgain(r.attempt)]

\* a failed pass that is followed by a wait even when it is the last
AttemptRaised_AlwaysWaits(r) ==
    [r EXCEPT !.sends = Append(@, [address |-> PrimaryAddress, ok |-> FALSE,
                                   sent |-> r.processed, reply |-> <<>>]),
              !.attempt = @ + 1,
              !.waits = Append(@, RetryWait),
              !.pc = IF RetryAgain(r.attempt) THEN "forward" ELSE "done",
              !.response = IF RetryAgain(r.attempt) THEN @
                           ELSE Response(r.commands, ProcessedMessage)]

\* a pass of the retry loop whose call raised: the exception is caught, the loop
\* waits and goes on, or gives up after the last pass
AttemptRaised(r) ==
    [r EXCEPT !.sends = Append(@, [address |-> PrimaryAddress, ok |-> FALSE,
                                   sent |-> r.processed, reply |-> <<>>]),
              !.attempt = @ + 1,
              !.waits = IF RetryAgain(r.attempt) THEN Append(@, RetryWait) ELSE @,
              !.pc = IF RetryAgain(r.attempt) THEN "forward" ELSE "done",
              !.response = IF RetryAgain(r.attempt) THEN @
                           ELSE Response(r.commands, ProcessedMessage)]

\* one pass of the retry loop: the call to the primary receiver returns a reply or
\* raises
Attempt ==
    /\ relay.pc = "forward"
    /\ \/ \E damaged \in BOOLEAN :
            relay' = AttemptReturned(relay,
                                     ReceiverReply(AsReceived(relay.processed, damaged)))
       \/ relay' = AttemptRaised(relay)
    /\ UNCHANGED <<now, mc_vars, last_position, anomaly_count, alert_levels,
                   bandwidth_mode, checksum, compression, detection, tracking, power, weather, threads,
                   ground_vars>>

\* the response goes back to the spacecraft
Finish ==
    /\ relay.pc = "done"
    /\ relay' = NoRelay
    /\ decision' = NoDecision
    /\ UNCHANGED <<now, spacecraft_history, command_history, last_position,
                   anomaly_count, alert_levels, bandwidth_mode, checksum, compression,
                   detection, tracking, power, weather, threads,
                   ground_vars>>

Receive == ReceiveFrom(RelayRequests) /\ UNCHANGED detection

RelayNext == Receive \/ Attempt \/ Finish

\* the relay serving one SendTelemetry call after another, all of them within the
\* cooldown window that the first command opens
RelaySpec == Init /\ [][RelayNext]_vars

\* the counting of a report in SendTelemetry: the entries made for a spacecraft seen
\* for the first time, the counter, the alert level and the bandwidth mode
CountReport ==
    \E id \in Fleet, anomalies \in {<<>>, <<"Temperature out of range">>} :
       LET counts == WithDefault(anomaly_count, id, 0)
           alerts == WithDefault(alert_levels, id, "NOMINAL")
       IN /\ counts[id] < MaxCountedFindings
          /\ \E count \in {CountAfter(counts[id], anomalies)} :
                /\ anomaly_count' = [counts EXCEPT ![id] = count]
                /\ alert_levels' =
                      [alerts EXCEPT ![id] = AlertAfter(alerts[id], count, anomalies)]
                /\ bandwidth_mode' = BandwidthAfter(bandwidth_mode, count, anomalies)
          /\ last_position' = WithDefault(last_position, id, <<0, 0, 0>>)
          /\ UNCHANGED <<now, mc_vars, relay, checksum, compression, detection, tracking,
                         power, weather, threads, ground_vars>>

AlertNext == CountReport

\* the relay counting the findings of the reports of the fleet, one report after
\* another
AlertSpec == Init /\ [][AlertNext]_vars

ReceiveOne == ReceiveFrom(RetryRequests) /\ UNCHANGED detection

RetryNext == ReceiveOne \/ Attempt \/ Finish

\* the reports of spacecraft that move between two places
DetectorRequests ==
    { [spacecraft_id |-> id, timestamp |-> 0, position |-> position,
       velocity |-> <<0, 0, 0>>, temperature |-> temp, radiation_level |-> 0,
       energy_level |-> 65, mode |-> "NORMAL"] :
      id \in Fleet, position \in {<<0, 0, 0>>, <<100, 0, 0>>}, temp \in {20} }

\* the detect_anomalies call of the SendTelemetry call that relay' holds: the
\* telemetry passed, the last position on record for the spacecraft, the findings
DetectCall ==
    LET id == relay'.request.spacecraft_id
    IN [telemetry |-> [relay'.processed EXCEPT !.alert_level = ""],
        last_pos |-> WithDefault(last_position, id, <<0, 0, 0>>)[id],
        findings |-> relay'.anomalies]

\* SendTelemetry with its detect_anomalies call put on record: one call is kept, and
\* of the calls after it the latest
ReceiveObserved ==
    /\ ReceiveWith(DetectorRequests, {n \in Noises : n.temperature = 0})
    /\ IF detection.kept = <<>>
       THEN \E keep \in BOOLEAN :
               detection' = [kept |-> IF keep THEN <<DetectCall>> ELSE <<>>,
                             latest |-> <<>>]
       ELSE detection' = [detection EXCEPT !.latest = <<DetectCall>>]

DetectorNext == ReceiveObserved \/ Attempt \/ Finish

\* the relay serving reports, two of its detect_anomalies calls on record
DetectorSpec == Init /\ [][DetectorNext]_vars

\* the relay serving one spacecraft, every call to the receiver returning or raising
RetrySpec == Init /\ [][RetryNext]_vars /\ WF_vars(Attempt)

\* _calculate_checksum called on a telemetry message
CalculateChecksumCall ==
    /\ ~checksum.called
    /\ \E vals \in [1..7 -> ChecksumInputs] :
          checksum' = [called |-> TRUE, vals |-> vals, result |-> CalculateChecksum(vals)]
    /\ UNCHANGED <<now, mc_vars, tp_vars, compression, detection, tracking, power, weather, threads,
                   ground_vars>>

ChecksumReturn ==
    /\ checksum.called
    /\ checksum' = NoCall
    /\ UNCHANGED <<now, mc_vars, tp_vars, compression, detection, tracking, power, weather, threads,
                   ground_vars>>

ChecksumNext == CalculateChecksumCall \/ ChecksumReturn

\* the receiver computing checksums
ChecksumSpec == Init /\ [][ChecksumNext]_vars

\* a report in which the fields of present are set
ReportDict(present, sample) ==
    [f \in present |->
        IF f \in {"spacecraft_id", "mode", "alert_level"} THEN Str("set") ELSE Num(sample)]

\* compress_telemetry called on a report, the result recorded for each bandwidth mode
CompressTelemetryCall ==
    /\ ~compression.called
    /\ \E present \in SUBSET ReportFields, sample \in FloatSamples :
          \E data_dict \in {ReportDict(present, sample)} :
             compression' =
                [called |-> TRUE, data_dict |-> data_dict,
                 payload |-> [m \in BandwidthModes |-> CompressTelemetry(data_dict, m)]]
    /\ UNCHANGED <<now, mc_vars, tp_vars, checksum, detection, tracking, power, weather, threads,
                   ground_vars>>

CompressReturn ==
    /\ compression.called
    /\ compression' = NoCall
    /\ UNCHANGED <<now, mc_vars, tp_vars, checksum, detection, tracking, power, weather, threads,
                   ground_vars>>

CompressorNext == CompressTelemetryCall \/ CompressReturn

\* the compressor applied to reports
CompressorSpec == Init /\ [][CompressorNext]_vars

\* --------------------------------------------------------- track_spacecraft

\* the buffers track_spacecraft creates on the first report of a spacecraft
NewBuffers ==
    [positions |-> <<>>, temperatures |-> <<>>, energy_levels |-> <<>>, modes |-> <<>>]

\* buffer[:max_history]: the oldest entries
MostRecent_Oldest(buffer) ==
    SubSeq(buffer, 1, IF Len(buffer) < max_history THEN Len(buffer) ELSE max_history)

\* buffer[-max_history:]
MostRecent(buffer) ==
    SubSeq(buffer, IF Len(buffer) > max_history THEN Len(buffer) - max_history + 1 ELSE 1,
           Len(buffer))

\* the four appends of track_spacecraft and the cut to max_history entries, which
\* the length of positions alone decides
TrackBuffers(buffers, t) ==
    LET id == t.spacecraft_id
        before == IF id \in DOMAIN buffers THEN buffers[id] ELSE NewBuffers
        appended == [positions |-> Append(before.positions, t.position),
                     temperatures |-> Append(before.temperatures, t.temperature),
                     energy_levels |-> Append(before.energy_levels, t.energy_level),
                     modes |-> Append(before.modes, t.mode)]
        after == IF Len(appended.positions) > max_history
                 THEN [positions |-> MostRecent(appended.positions),
                       temperatures |-> MostRecent(appended.temperatures),
                       energy_levels |-> MostRecent(appended.energy_levels),
                       modes |-> MostRecent(appended.modes)]
                 ELSE appended
    IN [i \in DOMAIN buffers \cup {id} |-> IF i = id THEN after ELSE buffers[i]]

\* the k-th report of a spacecraft: it moves along a line, its temperature, energy
\* and mode cycle
TrackedReport(id, k) ==
    [spacecraft_id |-> id, position |-> <<k, 0, 0>>,
     temperature |-> (k % 3) * 45 - 45,
     energy_level |-> 15 + (k % 4) * 20,
     mode |-> IF k % 2 = 0 THEN "NORMAL" ELSE "SAFE"]

\* the number of track_spacecraft calls made for a spacecraft
CallsFor(id) == IF id \in DOMAIN tracking.calls THEN tracking.calls[id] ELSE 0

\* track_spacecraft called with the next report of a spacecraft
TrackSpacecraftCall ==
    \E id \in Fleet :
       /\ CallsFor(id) < MaxReports
       /\ spacecraft_history' = TrackSpacecraft(spacecraft_history, id)
       /\ tracking' =
             [buffers |-> TrackBuffers(tracking.buffers, TrackedReport(id, CallsFor(id) + 1)),
              calls |-> [i \in DOMAIN tracking.calls \cup {id} |->
                           IF i = id THEN CallsFor(id) + 1 ELSE tracking.calls[i]]]
       /\ UNCHANGED <<now, command_history, decision, tp_vars, checksum, compression,
                      detection, power, weather, threads,
                   ground_vars>>

TrackNext == TrackSpacecraftCall

\* MissionControl tracking the reports of the fleet; make_decision never reads the
\* buffers, and the specifications of its commands leave them out
TrackSpec == Init /\ [][TrackNext]_vars

\* --------------------------------------------------- DeepSpaceCommSimulator

\* probabilities and the samples of random.random() are in units of 1/10000, the
\* solar interference in hundredths, distances in AU
base_loss == 100
distance_loss == 1000
interference_loss == 2000
loss_distance_cap == 50

\* the distances and interference levels the simulator is set to, the samples drawn
Distances == {-5, 0, 10, 25, 49, 50, 51, 80}
InterferenceLevels == {-50, 0, 30, 100, 250}
RandomSamples == {0, 99, 100, 1499, 3099, 3100, 9999}

\* max(0, min(1, level)) with the upper limit left out
ClampInterference_NoCeiling(level) == IF level < 0 THEN 0 ELSE level

\* max(0, min(1, level)), in hundredths
ClampInterference(level) ==
    IF level > 100 THEN 100 ELSE IF level < 0 THEN 0 ELSE level

\* distance_au / 50 taken without the limit at 1, in fiftieths
DistanceFactor_NoCap(distance_au) == distance_au

\* min(1, distance_au / 50), in fiftieths
DistanceFactor(distance_au) ==
    IF distance_au > loss_distance_cap THEN loss_distance_cap ELSE distance_au

\* loss_probability + 0.1 * distance_factor + 0.2 * solar_interference
TotalProbability(distance_au, solar_interference) ==
    base_loss
    + (distance_loss * DistanceFactor(distance_au)) \div loss_distance_cap
    + (interference_loss * solar_interference) \div 100

\* set_distance(distance_au)
SetDistance ==
    /\ ~comm.called
    /\ \E d \in Distances : comm' = [comm EXCEPT !.distance_au = d]
    /\ UNCHANGED <<now, mc_vars, tp_vars, checksum, compression, detection, tracking,
                   power, weather, threads, receiver, simulator, dashboard>>

\* set_solar_interference(level)
SetSolarInterference ==
    /\ ~comm.called
    /\ \E level \in InterferenceLevels :
          comm' = [comm EXCEPT !.solar_interference = ClampInterference(level)]
    /\ UNCHANGED <<now, mc_vars, tp_vars, checksum, compression, detection, tracking,
                   power, weather, threads, receiver, simulator, dashboard>>

\* simulate_packet_loss(): random.random() < total_probability
SimulatePacketLoss ==
    /\ ~comm.called
    /\ \E sample \in RandomSamples :
          \E p \in {TotalProbability(comm.distance_au, comm.solar_interference)} :
             comm' = [distance_au |-> comm.distance_au,
                      solar_interference |-> comm.solar_interference,
                      called |-> TRUE, total_probability |-> p,
                      sample |-> sample, lost |-> sample < p]
    /\ UNCHANGED <<now, mc_vars, tp_vars, checksum, compression, detection, tracking,
                   power, weather, threads, receiver, simulator, dashboard>>

\* the draw goes back to the caller
PacketLossReturn ==
    /\ comm.called
    /\ comm' = [distance_au |-> comm.distance_au,
                solar_interference |-> comm.solar_interference, called |-> FALSE]
    /\ UNCHANGED <<now, mc_vars, tp_vars, checksum, compression, detection, tracking,
                   power, weather, threads, receiver, simulator, dashboard>>

CommNext == SetDistance \/ SetSolarInterference \/ SimulatePacketLoss \/ PacketLossReturn

\* the channel simulator set to a distance and an interference level and asked for
\* packet-loss draws
CommSpec == Init /\ [][CommNext]_vars

\* make_decision with the buffers track_spacecraft fills: the next report of a
\* spacecraft is tracked, then decided on
TrackedDecision ==
    \E id \in Spacecraft,
       anomalies \in {<<>>, <<"Temperature out of range">>,
                      <<"Temperature out of range", "Velocity exceeds maximum">>} :
       /\ ~decision.called
       /\ CallsFor(id) < MaxTrackedDecisions
       /\ WithinBounds(id)
       /\ MakeDecisionCall(TrackedReport(id, CallsFor(id) + 1), anomalies,
                           [i \in 1..Len(science_targets) |-> FALSE])
       /\ tracking' =
             [buffers |-> TrackBuffers(tracking.buffers, TrackedReport(id, CallsFor(id) + 1)),
              calls |-> [i \in DOMAIN tracking.calls \cup {id} |->
                           IF i = id THEN CallsFor(id) + 1 ELSE tracking.calls[i]]]
       /\ UNCHANGED <<now, tp_vars, checksum, compression, detection, power, weather,
                      threads, ground_vars>>

TrackedNext == Tick \/ TrackedDecision \/ Return

\* MissionControl deciding on the reports of a spacecraft, its buffers followed
TrackedSpec == Init /\ [][TrackedNext]_vars

\* ---------------------------------------------------------- ReceiverService

\* the sequence numbers a spacecraft may leave out between two reports that arrive
SequenceGaps == {0, 1}

\* the counting that _stream_to_ui and process_telemetry_data each do on a report
CountPacket(stats, sequence_num) ==
    LET expected_sequence == stats.last_sequence_num + 1
    IN [stats EXCEPT
          !.packets_received = @ + 1,
          !.packets_lost = IF sequence_num > expected_sequence
                           THEN @ + (sequence_num - expected_sequence) ELSE @,
          !.last_sequence_num = sequence_num]

\* the last sequence number received from a spacecraft, 0 before its first report
LastOf(id) == IF id \in DOMAIN receiver.last_of THEN receiver.last_of[id] ELSE 0

\* ReceiverService.SendTelemetry on the next report of a spacecraft that arrives:
\* _stream_to_ui, then process_telemetry_data
ReceiverSendTelemetry ==
    \E id \in Fleet, gap \in SequenceGaps :
       LET sequence_num == LastOf(id) + 1 + gap
           counted == CountPacket(CountPacket(receiver, sequence_num), sequence_num)
       IN /\ sequence_num <= MaxSequenceNum
          /\ receiver' =
                [counted EXCEPT
                   !.handled = @ + 1,
                   !.last_of = [i \in DOMAIN receiver.last_of \cup {id} |->
                                  IF i = id THEN sequence_num ELSE receiver.last_of[i]],
                   !.report = <<[spacecraft_id |-> id, sequence_num |-> sequence_num,
                                 previous |-> LastOf(id),
                                 received_before |-> receiver.packets_received,
                                 lost_before |-> receiver.packets_lost]>>]
          /\ UNCHANGED <<now, mc_vars, tp_vars, checksum, compression, detection,
                         tracking, power, weather, threads, comm, simulator, dashboard>>

ReceiverNext == ReceiverSendTelemetry

\* the receiver handling the reports of the fleet, one after another
ReceiverSpec == Init /\ [][ReceiverNext]_vars

\* ------------------------------------------- SpacecraftSimulator, control_server

\* SpacecraftSimulator.toggle_pause
toggle_pause(paused) == ~paused

\* the spacecraft the send loop turns to after the one at position sc
NextSpacecraft(sc) == IF sc = Len(spacecraft_list) THEN 1 ELSE sc + 1

\* run, the send loop at `if sc.paused: continue`
RunPaused ==
    /\ simulator.at = "paused"
    /\ simulator.paused[simulator.sc] \/
          simulator.sequence_num[simulator.sc] < MaxSimulatedSequence
    /\ simulator' =
          IF simulator.paused[simulator.sc]
          THEN [simulator EXCEPT !.sc = NextSpacecraft(@)]
          ELSE [simulator EXCEPT !.at = "update"]
    /\ UNCHANGED <<now, mc_vars, tp_vars, checksum, compression, detection,
                   tracking, power, weather, threads, comm, receiver, dashboard>>

\* run, the send loop at sc.update(): SpacecraftSimulator.update advances sequence_num
RunUpdate ==
    /\ simulator.at = "update"
    /\ simulator' = [simulator EXCEPT !.sequence_num[simulator.sc] = @ + 1,
                                      !.at = "send"]
    /\ UNCHANGED <<now, mc_vars, tp_vars, checksum, compression, detection,
                   tracking, power, weather, threads, comm, receiver, dashboard>>

\* run, the send loop at get_telemetry and stub.SendTelemetry, then the next spacecraft
RunSend ==
    /\ simulator.at = "send"
    /\ simulator' = [simulator EXCEPT !.sent[simulator.sc] = @ + 1,
                                      !.at = "paused",
                                      !.sc = NextSpacecraft(@)]
    /\ UNCHANGED <<now, mc_vars, tp_vars, checksum, compression, detection,
                   tracking, power, weather, threads, comm, receiver, dashboard>>

\* control_server (its own thread) handling the message that the dashboard's
\* pause_spacecraft sends: {"command": "pause", "paused": paused, "spacecraft_id": ...}
ControlPause ==
    \E sc \in 1..Len(spacecraft_list), paused \in BOOLEAN :
       /\ simulator' =
             [simulator EXCEPT
                !.paused[sc] = toggle_pause(@),
                !.message = <<[spacecraft_id |-> spacecraft_list[sc], sc |-> sc,
                               paused |-> paused]>>]
       /\ UNCHANGED <<now, mc_vars, tp_vars, checksum, compression, detection,
                      tracking, power, weather, threads, comm, receiver, dashboard>>

SimulatorNext == RunPaused \/ RunUpdate \/ RunSend \/ ControlPause

\* the send loop of run() with the control server beside it
SimulatorSpec == Init /\ [][SimulatorNext]_vars

\* ---------------------------------------------- dashboard, receive_telemetry

MAX_HISTORY == 100
MAX_ANOMALIES == 200
MAX_DECISIONS == 100

\* list.pop(), the newest entry dropped
Trim_Newest(list, limit) ==
    IF Len(list) > limit THEN SubSeq(list, 1, Len(list) - 1) ELSE list

\* if len(list) > limit: list.pop(0)
Trim(list, limit) == IF Len(list) > limit THEN Tail(list) ELSE list

\* is_new_anomaly: more than 10 seconds apart, another spacecraft, or another
\* message or severity
is_new_anomaly(new_anomaly, last_anomaly) ==
    LET difference == new_anomaly.timestamp - last_anomaly.timestamp
        time_diff == IF difference < 0 THEN -difference ELSE difference
    IN \/ time_diff > 10
       \/ new_anomaly.spacecraft_id # last_anomaly.spacecraft_id
       \/ ~(new_anomaly.message = last_anomaly.message /\
            new_anomaly.severity = last_anomaly.severity)

\* one anomaly offered to the history: appended unless it repeats the last entry,
\* and the history trimmed after the append
AddAnomaly(store, anomaly) ==
    IF store.anomaly_history = <<>> \/
       is_new_anomaly(anomaly, store.anomaly_history[Len(store.anomaly_history)])
    THEN [store EXCEPT
            !.anomaly_history =
               Trim(Append(@, [anomaly EXCEPT !.arrival = store.anomalies_in + 1]),
                    MAX_ANOMALIES),
            !.anomalies_in = @ + 1]
    ELSE store

\* the loop over the descriptions of a flagged message, blank ones skipped
RECURSIVE AddDescriptions(_, _, _)
AddDescriptions(store, telemetry_data, desc_list) ==
    IF desc_list = <<>> THEN store
    ELSE AddDescriptions(
            IF Head(desc_list) = "" THEN store
            ELSE AddAnomaly(store,
                    [timestamp |-> telemetry_data.timestamp,
                     spacecraft_id |-> telemetry_data.spacecraft_id,
                     severity |-> telemetry_data.anomaly_severity,
                     message |-> Head(desc_list), arrival |-> 0]),
            telemetry_data, Tail(desc_list))

\* check_for_anomalies, is_critical_anomaly and get_anomaly_description on the
\* temperature (positions and velocities within their limits)
check_for_anomalies(telemetry) == telemetry.temperature < -40 \/ telemetry.temperature > 40

is_critical_anomaly(telemetry) == telemetry.temperature < -80 \/ telemetry.temperature > 80

get_anomaly_description(telemetry) ==
    IF telemetry.temperature < -80 THEN "CRITICAL: Extreme low temperature"
    ELSE IF telemetry.temperature < -40 THEN "WARNING: Low temperature"
    ELSE IF telemetry.temperature > 80 THEN "CRITICAL: Extreme high temperature"
    ELSE IF telemetry.temperature > 40 THEN "WARNING: High temperature"
    ELSE "Unknown anomaly detected"

\* the anomalies of a message: the descriptions of a flagged message, else what
\* the dashboard detects itself
StoreAnomalies(store, telemetry_data) ==
    IF telemetry_data.anomaly_detected
    THEN AddDescriptions(store, telemetry_data, telemetry_data.anomaly_descriptions)
    ELSE IF check_for_anomalies(telemetry_data)
    THEN AddAnomaly(store,
            [timestamp |-> telemetry_data.timestamp,
             spacecraft_id |-> telemetry_data.spacecraft_id,
             severity |-> IF is_critical_anomaly(telemetry_data)
                          THEN "critical" ELSE "warning",
             message |-> get_anomaly_description(telemetry_data), arrival |-> 0])
    ELSE store

\* the loop over the decisions of a message, the history trimmed after each append
RECURSIVE StoreDecisions(_, _, _)
StoreDecisions(store, telemetry_data, decisions_list) ==
    IF decisions_list = <<>> THEN store
    ELSE StoreDecisions(
            [store EXCEPT
               !.decision_history =
                  Trim(Append(@, [timestamp |-> telemetry_data.timestamp,
                                  spacecraft_id |-> telemetry_data.spacecraft_id,
                                  decision |-> Head(decisions_list),
                                  result |-> "Success",
                                  arrival |-> store.decisions_in + 1]),
                       MAX_DECISIONS),
               !.decisions_in = @ + 1],
            telemetry_data, Tail(decisions_list))

\* the telemetry of a message appended to the list of its spacecraft, created on
\* its first message, and the list trimmed; of the stored message the fields that
\* identify it are kept
StoreTelemetry(store, telemetry_data) ==
    LET id == telemetry_data.spacecraft_id
        before == IF id \in DOMAIN store.recent_telemetry
                  THEN store.recent_telemetry[id] ELSE <<>>
        count == IF id \in DOMAIN store.telemetry_in THEN store.telemetry_in[id] ELSE 0
        entry == [spacecraft_id |-> id, timestamp |-> telemetry_data.timestamp,
                  sequence_num |-> telemetry_data.sequence_num, arrival |-> count + 1]
    IN [store EXCEPT
          !.recent_telemetry =
             [i \in DOMAIN store.recent_telemetry \cup {id} |->
                IF i = id THEN Trim(Append(before, entry), MAX_HISTORY)
                ELSE store.recent_telemetry[i]],
          !.telemetry_in =
             [i \in DOMAIN store.telemetry_in \cup {id} |->
                IF i = id THEN count + 1 ELSE store.telemetry_in[i]]]

\* one message of the receiver's stream processed: telemetry, anomalies, decisions
ProcessMessage(store, telemetry_data) ==
    LET stored == StoreAnomalies(StoreTelemetry(store, telemetry_data), telemetry_data)
        decided == IF telemetry_data.decisions_made /\
                      telemetry_data.decisions_descriptions # <<>>
                   THEN StoreDecisions(stored, telemetry_data,
                                       telemetry_data.decisions_descriptions)
                   ELSE stored
    IN [decided EXCEPT !.received = @ + 1]

\* what a message may say about anomalies: flagged with its descriptions (one of
\* them blank or repeated), unflagged with a temperature the dashboard objects to,
\* or clean
AnomalyInputs ==
    {[anomaly_detected |-> TRUE, anomaly_descriptions |-> <<"Temperature out of range">>,
      temperature |-> 60],
     [anomaly_detected |-> TRUE,
      anomaly_descriptions |-> <<"Temperature out of range", "", "Temperature out of range">>,
      temperature |-> 60],
     [anomaly_detected |-> TRUE, anomaly_descriptions |-> <<>>, temperature |-> 20],
     [anomaly_detected |-> FALSE, anomaly_descriptions |-> <<>>, temperature |-> 60],
     [anomaly_detected |-> FALSE, anomaly_descriptions |-> <<>>, temperature |-> 20]}

\* the decisions of the k-th message of a spacecraft: none, one, or two
DecisionsOf(k) ==
    IF k % 3 = 0 THEN <<>>
    ELSE IF k % 3 = 1 THEN <<"ENTER_SAFE_MODE">>
    ELSE <<"ENTER_SAFE_MODE", "THERMAL_CONTROL">>

\* the next message of the stream: the spacecraft report in turn, as run() sends
\* them; the first reports anomalies and decisions, the others are healthy; all
\* arrive in one burst, with one timestamp
ReceiveTelemetry ==
    \E input \in AnomalyInputs :
       LET sc == (dashboard.received % Len(spacecraft_list)) + 1
           k == (dashboard.received \div Len(spacecraft_list)) + 1
           telemetry_data ==
              IF sc = 1
              THEN [spacecraft_id |-> spacecraft_list[sc], timestamp |-> StartTime,
                    sequence_num |-> k + 1, temperature |-> input.temperature,
                    anomaly_detected |-> input.anomaly_detected,
                    anomaly_descriptions |-> input.anomaly_descriptions,
                    anomaly_severity |-> "warning",
                    decisions_made |-> DecisionsOf(k) # <<>>,
                    decisions_descriptions |-> DecisionsOf(k)]
              ELSE [spacecraft_id |-> spacecraft_list[sc], timestamp |-> StartTime,
                    sequence_num |-> k + 1, temperature |-> 20,
                    anomaly_detected |-> FALSE, anomaly_descriptions |-> <<>>,
                    anomaly_severity |-> "warning",
                    decisions_made |-> FALSE, decisions_descriptions |-> <<>>]
       IN /\ dashboard.received < MaxMessages
          /\ dashboard' = ProcessMessage(dashboard, telemetry_data)
          /\ UNCHANGED <<now, mc_vars, tp_vars, checksum, compression, detection,
                         tracking, power, weather, threads, comm, receiver, simulator>>

DashboardNext == ReceiveTelemetry

\* the dashboard reading the receiver's stream
DashboardSpec == Init /\ [][DashboardNext]_vars

\* ---------------------------------------------- track_spacecraft on threads

\* the statements of track_spacecraft in the order a thread runs them: the test
\* `spacecraft_id not in self.spacecraft_history`, the assignment of a new record,
\* `history = self.spacecraft_history[spacecraft_id]`, the four appends, the cut
\* of these, the statements a thread runs on the record its local `history` holds
OnHistory == {"positions", "temperatures", "energy_levels", "modes", "cut"}

BuffersOf(id) == IF id \in DOMAIN tracking.buffers THEN tracking.buffers[id] ELSE NewBuffers

\* the cut to max_history entries, which the length of positions alone decides
CutBuffers(b) ==
    IF Len(b.positions) > max_history
    THEN [positions |-> MostRecent(b.positions),
          temperatures |-> MostRecent(b.temperatures),
          energy_levels |-> MostRecent(b.energy_levels),
          modes |-> MostRecent(b.modes)]
    ELSE b

\* the record of a spacecraft in spacecraft_history is set to b
WithBuffers(id, b) ==
    [i \in DOMAIN tracking.buffers \cup {id} |-> IF i = id THEN b ELSE tracking.buffers[i]]

\* a worker thread enters track_spacecraft with the next report and makes the test
\* `if spacecraft_id not in self.spacecraft_history`; no lock is taken
TrackEnter(w) ==
    /\ threads[w].pc = "idle"
    /\ \E id \in Spacecraft :
          /\ CallsFor(id) < MaxOverlappingReports
          /\ threads' = [threads EXCEPT ![w] =
                           [pc |-> IF id \in DOMAIN tracking.buffers
                                   THEN "history" ELSE "create",
                            telemetry |-> TrackedReport(id, CallsFor(id) + 1),
                            detached |-> FALSE]]
          /\ tracking' = [tracking EXCEPT !.calls =
                             [i \in DOMAIN tracking.calls \cup {id} |->
                                IF i = id THEN CallsFor(id) + 1 ELSE tracking.calls[i]]]
    /\ UNCHANGED <<now, mc_vars, tp_vars, checksum, compression, detection, power,
                   weather,
                   ground_vars>>

\* self.spacecraft_history[spacecraft_id] = {...}: a new record with empty buffers
\* replaces whatever the dictionary holds; the threads that hold the replaced record
\* in `history` go on writing to a record no longer in the dictionary
TrackCreate(w) ==
    /\ threads[w].pc = "create"
    /\ LET id == threads[w].telemetry.spacecraft_id
       IN /\ tracking' = [tracking EXCEPT !.buffers = WithBuffers(id, NewBuffers)]
          /\ spacecraft_history' =
                [i \in DOMAIN spacecraft_history \cup {id} |->
                   IF i = id THEN NewHistory ELSE spacecraft_history[i]]
          /\ threads' =
                [v \in Workers |->
                   IF v = w THEN [threads[v] EXCEPT !.pc = "history"]
                   ELSE IF /\ threads[v].pc \in OnHistory
                           /\ threads[v].telemetry.spacecraft_id = id
                        THEN [threads[v] EXCEPT !.detached = TRUE]
                        ELSE threads[v]]
    /\ UNCHANGED <<now, command_history, decision, tp_vars, checksum, compression,
                   detection, power, weather,
                   ground_vars>>

\* history = self.spacecraft_history[spacecraft_id]
TrackHistory(w) ==
    /\ threads[w].pc = "history"
    /\ threads' = [threads EXCEPT ![w].pc = "positions"]
    /\ UNCHANGED <<now, mc_vars, tp_vars, checksum, compression, detection, tracking,
                   power, weather,
                   ground_vars>>

\* the buffers after the statement a thread is at
AfterStep(b, step, t) ==
    IF step = "positions" THEN [b EXCEPT !.positions = Append(@, t.position)]
    ELSE IF step = "temperatures" THEN [b EXCEPT !.temperatures = Append(@, t.temperature)]
    ELSE IF step = "energy_levels" THEN [b EXCEPT !.energy_levels = Append(@, t.energy_level)]
    ELSE IF step = "modes" THEN [b EXCEPT !.modes = Append(@, t.mode)]
    ELSE CutBuffers(b)

\* the statement that follows, "idle" after the last
StepAfter(step) ==
    IF step = "positions" THEN "temperatures"
    ELSE IF step = "temperatures" THEN "energy_levels"
    ELSE IF step = "energy_levels" THEN "modes"
    ELSE IF step = "modes" THEN "cut"
    ELSE "idle"

\* one of the four appends, or the cut, on the record the thread holds
TrackStep(w) ==
    /\ threads[w].pc \in OnHistory
    /\ LET th == threads[w]
           id == th.telemetry.spacecraft_id
       IN /\ tracking' =
                IF th.detached THEN tracking
                ELSE [tracking EXCEPT !.buffers =
                        WithBuffers(id, AfterStep(BuffersOf(id), th.pc, th.telemetry))]
          /\ threads' = [threads EXCEPT ![w] =
                           IF StepAfter(th.pc) = "idle" THEN IdleThread
                           ELSE [th EXCEPT !.pc = StepAfter(th.pc)]]
    /\ UNCHANGED <<now, mc_vars, tp_vars, checksum, compression, detection, power,
                   weather,
                   ground_vars>>

TrackThreadsNext ==
    \/ \E w \in Workers : TrackEnter(w)
    \/ \E w \in Workers : TrackCreate(w)
    \/ \E w \in Workers : TrackHistory(w)
    \/ \E w \in Workers : TrackStep(w)

\* track_spacecraft run by the worker threads of the server's pool on the first
\* reports of a spacecraft, far below max_history
TrackThreadsSpec == Init /\ [][TrackThreadsNext]_vars

\* ------------------------------------------------- make_decision on threads

\* the reports two calls served at the same time bring
ThreadReports ==
    { [spacecraft_id |-> "Voyager-1", mode |-> mode, energy_level |-> energy,
       temperature |-> temp, position |-> <<0, 0, 0>>] :
      mode \in {"NORMAL", "SAFE"}, energy \in {15, 65}, temp \in {0, 45} }

others_vars ==
    <<tp_vars, decision, checksum, compression, detection, tracking, power, weather>>

\* a worker thread enters make_decision: track_spacecraft, the clock reading and the
\* cooldown test on the history as it is now; no lock is taken
EnterDecision(w) ==
    /\ threads[w].pc = "idle"
    /\ \E t \in ThreadReports, anomalies \in {<<>>, <<"Temperature out of range">>} :
          LET id == t.spacecraft_id
              tracked == TrackSpacecraft(spacecraft_history, id)
              gated == CooldownActive(tracked[id], now)
          IN /\ WithinBounds(id)
             /\ spacecraft_history' = tracked
             /\ threads' = [threads EXCEPT ![w] =
                              [pc |-> IF gated THEN "return" ELSE "decide",
                               telemetry |-> t, anomalies |-> anomalies,
                               current_time |-> now, commands |-> <<>>]]
    /\ UNCHANGED <<now, command_history, others_vars,
                   ground_vars>>

\* the thread goes on past the gate: the rules run on the history as it is now, the
\* commands are logged and last_command_time is written
DecidePastGate(w) ==
    /\ threads[w].pc = "decide"
    /\ \E draws \in Draws :
          LET th == threads[w]
              id == th.telemetry.spacecraft_id
          IN \E r \in {AfterGate(spacecraft_history[id], th.telemetry, th.anomalies,
                                  th.current_time, draws, now)} :
                /\ spacecraft_history' = [spacecraft_history EXCEPT ![id] = r.history]
                /\ command_history' =
                       IF r.commands = <<>> THEN command_history
                       ELSE [i \in DOMAIN command_history \cup {id} |->
                               IF i = id THEN CommandLog(id) \o LogAll(r.commands)
                               ELSE command_history[i]]
                /\ threads' = [threads EXCEPT ![w].pc = "return",
                                              ![w].commands = r.commands]
    /\ UNCHANGED <<now, others_vars,
                   ground_vars>>

\* the thread returns its commands
ThreadReturn(w) ==
    /\ threads[w].pc = "return"
    /\ threads' = [threads EXCEPT ![w] = IdleThread]
    /\ UNCHANGED <<now, mc_vars, tp_vars, checksum, compression, detection, tracking,
                   power, weather,
                   ground_vars>>

ThreadsNext ==
    \/ (Tick /\ \A w \in Workers : threads[w].pc = "idle")
    \/ \E w \in Workers : EnterDecision(w)
    \/ \E w \in Workers : DecidePastGate(w)
    \/ \E w \in Workers : ThreadReturn(w)

\* make_decision served by the worker threads of the server's pool
ThreadsSpec == Init /\ [][ThreadsNext]_vars

\* -------------------------------------------------------------- PowerBudget

\* the seconds that may pass between two calls
ElapseSteps == {60, 90, 180}

\* time passes
Elapse ==
    /\ \E d \in ElapseSteps :
          /\ now + d <= StartTime + MaxElapsed
          /\ now' = now + d
    /\ UNCHANGED <<mc_vars, tp_vars, checksum, compression, detection, tracking, power,
                   weather, threads,
                   ground_vars>>

\* a capacity that is let below zero
Clamp_NoFloor(capacity) ==
    IF capacity > max_capacity THEN max_capacity ELSE capacity

\* a capacity clamped to [0, max_capacity]
Clamp(capacity) ==
    IF capacity < 0 THEN 0
    ELSE IF capacity > max_capacity THEN max_capacity ELSE capacity

\* the recompute of Update: elapsed time x (generation rate - consumption rate of
\* the mode) is added to the capacity and the sum clamped
Recompute(p, current_time) ==
    LET raw == p.capacity
                 + (current_time - p.last_update)
                     * (generation_rate - consumption_rate[p.mode])
    IN [p EXCEPT !.capacity = Clamp(raw), !.raw = raw, !.last_update = current_time]

\* a gate that lets an operation use the capacity down to zero
WithinReserve_NoMargin(capacity, operation, duration) ==
    capacity - consumption_rate[operation] * duration >= 0

\* the capacity left after the operation stays above the reserve margin
WithinReserve(capacity, operation, duration) ==
    100 * (capacity - consumption_rate[operation] * duration)
        > reserve_percent * max_capacity

PowerModes == DOMAIN consumption_rate
\* the durations an operation is gated for
Durations == {0, 60, 100}

\* PowerBudget.Update
PowerUpdate ==
    /\ power' = [Recompute(power, now) EXCEPT !.gate = <<>>]
    /\ UNCHANGED <<now, mc_vars, tp_vars, checksum, compression, detection, tracking,
                   weather, threads,
                   ground_vars>>

\* PowerBudget.SetMode: a recompute, then the switch; an unrecognized mode leaves the
\* state untouched
SetMode ==
    /\ \E mode \in PowerModes \cup {"warp"} :
          power' = IF mode \in PowerModes
                   THEN [Recompute(power, now) EXCEPT !.mode = mode, !.gate = <<>>]
                   ELSE [power EXCEPT !.gate = <<>>]
    /\ UNCHANGED <<now, mc_vars, tp_vars, checksum, compression, detection, tracking,
                   weather, threads,
                   ground_vars>>

\* PowerBudget.CanPerform: a recompute, then the admission check
CanPerform ==
    /\ \E operation \in PowerModes, duration \in Durations :
          \E p \in {Recompute(power, now)} :
             power' = [p EXCEPT !.gate =
                          <<[operation |-> operation, duration |-> duration,
                             allowed |-> WithinReserve(p.capacity, operation, duration)]>>]
    /\ UNCHANGED <<now, mc_vars, tp_vars, checksum, compression, detection, tracking,
                   weather, threads,
                   ground_vars>>

PowerNext == Elapse \/ PowerUpdate \/ SetMode \/ CanPerform

\* the power budget under any sequence of calls
PowerSpec == Init /\ [][PowerNext]_vars

\* ------------------------------------------------------------- WeatherModel

\* an update made on every call
UpdateDue_Always(elapsed) == TRUE

\* an update is due once the interval has passed since the last one
UpdateDue(elapsed) == elapsed >= update_interval

\* WeatherModel.Update: a no-op unless an update is due; then one sample is drawn
WeatherUpdate ==
    /\ weather.returned = <<>>
    /\ IF UpdateDue(now - weather.last_update)
       THEN \E sample \in ActivityLevels :
               weather' = [activity |-> sample, last_update |-> now,
                           returned |-> <<sample>>]
       ELSE weather' = [weather EXCEPT !.returned = <<weather.activity>>]
    /\ UNCHANGED <<now, mc_vars, tp_vars, checksum, compression, detection, tracking,
                   power, threads,
                   ground_vars>>

\* the caller takes the activity level
WeatherReturn ==
    /\ weather.returned # <<>>
    /\ weather' = [weather EXCEPT !.returned = <<>>]
    /\ UNCHANGED <<now, mc_vars, tp_vars, checksum, compression, detection, tracking,
                   power, threads,
                   ground_vars>>

WeatherNext == (Elapse /\ weather.returned = <<>>) \/ WeatherUpdate \/ WeatherReturn

\* the weather model called at any times
WeatherSpec == Init /\ [][WeatherNext]_vars

\* ------------------------------------------------------------ make_decision

\* the call recorded in decision passed the cooldown gate
CooldownClear ==
    decision.before.last_command_time <= decision.current_time - 10

IsModeChange(cmd, mode) ==
    cmd.command_type = "MODE_CHANGE" /\ cmd.parameters = <<"mode", mode>>

Emits(mode) ==
    \E i \in 1..Len(decision.commands) : IsModeChange(decision.commands[i], mode)

\* C1 as stated: any two distinct commands issued to a spacecraft carry issue
\* timestamps at least 10 seconds apart.
C1_AnyTwoCommandsApart ==
    \A id \in Spacecraft :
        \A i, j \in 1..Len(CommandLog(id)) :
            i < j => CommandLog(id)[j].time - CommandLog(id)[i].time >= 10

\* C1 amended: a make_decision call issues commands to a spacecraft only when its
\* decision time is at least 10 seconds after the decision time of the previous
\* call that issued commands to that spacecraft (the commands of one call are
\* issued together).
C1_CooldownBetweenCalls ==
    [][\A id \in Spacecraft :
          (id \in DOMAIN spacecraft_history
             /\ Len(LogOf(command_history', id)) > Len(LogOf(command_history, id)))
          => /\ now >= spacecraft_history[id].last_command_time + 10
             /\ spacecraft_history'[id].last_command_time = now]_vars

\* two calls have issued commands to the same spacecraft
C1_Witness ==
    \E id \in Spacecraft :
        \E i, j \in 1..Len(CommandLog(id)) :
            CommandLog(id)[j].time - CommandLog(id)[i].time >= 10

StrikeFloorStep(before, after) ==
    after = IF before > 0 THEN before - 1 ELSE 0

\* C2 as stated: the strike counter is never negative, a make_decision call
\* increases it (by 1) only when the findings list is non-empty, and every call
\* without findings decreases it by 1, floored at 0.
C2_EveryCallCounts ==
    decision.called =>
        /\ decision.after.anomaly_count >= 0
        /\ decision.after.anomaly_count > decision.before.anomaly_count
              => /\ decision.anomalies # <<>>
                 /\ decision.after.anomaly_count = decision.before.anomaly_count + 1
        /\ decision.anomalies = <<>>
              => StrikeFloorStep(decision.before.anomaly_count,
                                 decision.after.anomaly_count)

\* C2 amended: the strike counter is never negative and a make_decision call
\* increases it (by 1) only when the findings list is non-empty; every call that
\* is not suppressed by the cooldown increases it by 1 when the findings list is
\* non-empty and otherwise decreases it by 1, floored at 0.
C2_StrikeCounter ==
    /\ \A id \in DOMAIN spacecraft_history : spacecraft_history[id].anomaly_count >= 0
    /\ decision.called =>
          /\ decision.after.anomaly_count > decision.before.anomaly_count
                => /\ decision.anomalies # <<>>
                   /\ decision.after.anomaly_count = decision.before.anomaly_count + 1
          /\ CooldownClear =>
                IF decision.anomalies # <<>>
                THEN decision.after.anomaly_count = decision.before.anomaly_count + 1
                ELSE StrikeFloorStep(decision.before.anomaly_count,
                                     decision.after.anomaly_count)

\* a call without findings that passed the gate found the counter at 0 and left it there
C2_Witness ==
    /\ decision.called /\ CooldownClear
    /\ decision.anomalies = <<>>
    /\ decision.before.anomaly_count = 0
    /\ decision.after.anomaly_count = 0

\* the critical-escalation condition of the specification, on the counter as it
\* stands after the report is counted
EscalationStated ==
    \/ Len(decision.anomalies) > 1
    \/ decision.after.anomaly_count >= 3
    \/ decision.telemetry.energy_level <= 15
    \/ \E i \in 1..Len(decision.anomalies) :
          decision.anomalies[i] = "CRITICAL: coolant loss"

OnlySafe ==
    /\ Len(decision.commands) = 1
    /\ IsModeChange(decision.commands[1], "SAFE")

C4_RecoveryToNormal ==
    (/\ decision.called /\ CooldownClear
     /\ decision.telemetry.mode = "SAFE"
     /\ decision.telemetry.energy_level > 60
     /\ decision.anomalies = <<>>
     /\ decision.before.anomaly_count = 0) => Emits("NORMAL")

\* the recovery fired below the science threshold
C4_Witness ==
    /\ decision.called /\ CooldownClear
    /\ decision.telemetry.mode = "SAFE"
    /\ decision.telemetry.energy_level = 65
    /\ decision.anomalies = <<>>
    /\ decision.before.anomaly_count = 0
    /\ Emits("NORMAL")

\* ------------------------------------------------------------ SendTelemetry

Sends(address, ok) ==
    {i \in 1..Len(relay.sends) :
        relay.sends[i].address = address /\ relay.sends[i].ok = ok}

\* C5: when all 3 attempts to send a report to the primary receiver fail, the relay
\* attempts the backup channel exactly once, 4 send attempts in total.
C5_BackupAfterPrimary ==
    (relay.pc = "done" /\ Cardinality(Sends(PrimaryAddress, FALSE)) = 3) =>
        /\ Cardinality({i \in 1..Len(relay.sends) :
                           relay.sends[i].address = BackupAddress}) = 1
        /\ Len(relay.sends) = 4

\* C6: SendTelemetry returns a response that carries the commands make_decision
\* produced, on every path (forwarded, lost, every attempt failed), and no
\* delivery failure leaves the handler as an error.
C6_ResponseCarriesCommands ==
    relay.pc = "done" =>
        /\ ~relay.raised
        /\ decision.called
        /\ relay.response.commands = decision.commands
        /\ relay.response.status =
              IF decision.commands # <<>> THEN "ACK_WITH_COMMANDS" ELSE "ACK"

\* every attempt failed and the response still carries a command
C6_Witness ==
    /\ relay.pc = "done"
    /\ ~relay.lost /\ ~relay.forwarded
    /\ Cardinality(Sends(PrimaryAddress, FALSE)) = 3
    /\ relay.response.commands # <<>>
    /\ relay.response.commands = decision.commands

RetryLoopBounds ==
    relay.pc # "idle" =>
        /\ Len(relay.sends) <= 3
        /\ \A i \in 1..Len(relay.sends) :
              /\ relay.sends[i].address = PrimaryAddress
              /\ i < Len(relay.sends) => ~relay.sends[i].ok
        /\ (relay.pc = "done" /\ ~relay.lost) => Len(relay.sends) >= 1
        /\ (relay.pc = "forward") => Len(relay.sends) < 3

C8_MismatchIsFailure ==
    \A i \in 1..Len(IF relay.pc = "idle" THEN <<>> ELSE relay.sends) :
        relay.sends[i].ok =>
            relay.sends[i].reply[1].temperature =
                CalculateChecksum(ChecksumFields(relay.processed))

\* ------------------------------------------------------ _calculate_checksum

RECURSIVE SumNanAsZero(_, _)
SumNanAsZero(vals, i) ==
    IF i > Len(vals) THEN 0
    ELSE (IF vals[i].nan THEN 0 ELSE vals[i].v) + SumNanAsZero(vals, i + 1)

\* C9: the checksum is the sum of the seven core numeric fields in which every
\* not-a-number field contributes 0.
C9_NanCountsAsZero ==
    checksum.called => checksum.result = Float(SumNanAsZero(checksum.vals, 1))

\* ------------------------------------------------------- compress_telemetry

KeptIn(bandwidth) == DOMAIN compression.payload[bandwidth]

\* C10: for every report the fields kept in critical mode are among those kept in
\* low mode, those among the ones kept in normal mode, those among the ones kept in
\* high mode.
C10_SubsetLaw ==
    compression.called =>
        /\ KeptIn("critical") \subseteq KeptIn("low")
        /\ KeptIn("low") \subseteq KeptIn("normal")
        /\ KeptIn("normal") \subseteq KeptIn("high")

\* a report for which every inclusion is strict
C10_Witness ==
    /\ compression.called
    /\ KeptIn("critical") # {}
    /\ KeptIn("critical") # KeptIn("low")
    /\ KeptIn("low") # KeptIn("normal")
    /\ KeptIn("normal") # KeptIn("high")

\* the priorities a bandwidth mode lets through
AllowedPriorities(bandwidth) ==
    IF bandwidth = "critical" THEN {"critical"}
    ELSE IF bandwidth = "low" THEN {"critical", "high"}
    ELSE {"critical", "high", "medium"}

FieldsOfPriority(priorities) ==
    {f \in DOMAIN compression.data_dict :
        f \in DOMAIN field_priorities /\ field_priorities[f] \in priorities}

\* C11: the payload of a bandwidth mode holds exactly the fields present in the
\* report whose priority the mode allows: critical only; critical and high; all but
\* low; and in high mode every field of the report.
C11_FieldsPerMode ==
    compression.called =>
        /\ \A b \in {"critical", "low", "normal"} :
              KeptIn(b) = FieldsOfPriority(AllowedPriorities(b))
        /\ KeptIn("high") = DOMAIN compression.data_dict

\* a report with a field of every priority and one without a priority
C11_Witness ==
    /\ compression.called
    /\ \A p \in {"critical", "high", "medium", "low"} : FieldsOfPriority({p}) # {}
    /\ "alert_level" \in KeptIn("high")
    /\ "alert_level" \notin KeptIn("normal")

\* C12: when simulate_packet_loss returns true for a report the relay makes no send
\* attempt to any receiver for it, and the response still carries the commands.
C12_LostIsNotForwarded ==
    (relay.pc # "idle" /\ relay.lost) =>
        /\ relay.sends = <<>>
        /\ ~relay.forwarded
        /\ relay.pc = "done"
        /\ relay.response.commands = decision.commands
        /\ relay.response.status \in {"ACK", "ACK_WITH_COMMANDS"}

\* a lost report whose response carries a command
C12_Witness ==
    /\ relay.pc = "done"
    /\ relay.lost
    /\ relay.sends = <<>>
    /\ relay.response.commands # <<>>

\* ---------------------------------------------------------- detect_anomalies

BothOnRecord == detection.kept # <<>> /\ detection.latest # <<>>

PositionFinding == "Abnormal position change"

Without(findings, text) == SelectSeq(findings, LAMBDA f : f # text)

Smaller(a, b) == IF a < b THEN a ELSE b

\* the entries of the last reports of a spacecraft, in arrival order
RecentReports(id) ==
    LET calls == CallsFor(id)
        held == Smaller(calls, max_history)
    IN [i \in 1..held |-> TrackedReport(id, calls - held + i)]

\* C14: after any sequence of track_spacecraft calls the four buffers of a spacecraft
\* have the same length, at most 100, and hold the most recent entries in arrival
\* order.
C14_RingBuffers ==
    \A id \in DOMAIN tracking.buffers :
        LET b == tracking.buffers[id]
            recent == RecentReports(id)
        IN /\ Len(b.positions) <= max_history
           /\ Len(b.temperatures) = Len(b.positions)
           /\ Len(b.energy_levels) = Len(b.positions)
           /\ Len(b.modes) = Len(b.positions)
           /\ Len(b.positions) = Len(recent)
           /\ \A i \in 1..Len(recent) :
                 /\ b.positions[i] = recent[i].position
                 /\ b.temperatures[i] = recent[i].temperature
                 /\ b.energy_levels[i] = recent[i].energy_level
                 /\ b.modes[i] = recent[i].mode

\* a spacecraft with more than 100 reports tracked: the oldest are gone
C14_Witness ==
    \E id \in DOMAIN tracking.buffers :
        /\ CallsFor(id) > max_history + 1
        /\ Len(tracking.buffers[id].positions) = max_history
        /\ tracking.buffers[id].positions[1] = <<CallsFor(id) - max_history + 1, 0, 0>>

\* -------------------------------------------------------------- PowerBudget

\* C15: for every sequence of Update and SetMode calls the stored capacity is within
\* [0, max_capacity] at every observation point.
C15_CapacityClamped ==
    /\ 0 <= power.capacity
    /\ power.capacity <= max_capacity

\* a recompute that drained the store below zero and was clamped
C15_Witness ==
    /\ power.raw < 0
    /\ power.capacity = 0
    /\ power.last_update > StartTime

GateCall == power.gate[1]

LeftAfter == power.capacity - consumption_rate[GateCall.operation] * GateCall.duration

\* C16: whenever CanPerform returns true the capacity left after consuming
\* rate[op] x d is at least the reserve margin, 10% of max capacity; it returns false
\* when the capacity is exactly at the margin and the operation consumes anything.
C16_GateConservative ==
    power.gate # <<>> =>
        /\ GateCall.allowed => 100 * LeftAfter >= 10 * max_capacity
        /\ (100 * power.capacity = 10 * max_capacity /\ LeftAfter < power.capacity)
              => ~GateCall.allowed

\* an operation admitted that takes the store down to just above the margin
C16_Witness ==
    /\ power.gate # <<>>
    /\ GateCall.allowed
    /\ LeftAfter < power.capacity
    /\ 100 * LeftAfter < 20 * max_capacity

\* ------------------------------------------------------------- WeatherModel

\* C17: an Update call made less than one interval (180 s) after the last update
\* leaves the activity level and the last-update time unchanged.
C17_AtMostOncePerInterval ==
    [][(now - weather.last_update < 180) =>
          /\ weather'.activity = weather.activity
          /\ weather'.last_update = weather.last_update]_vars

\* an Update call that returned the level unchanged within the interval, after an
\* earlier call changed it
C17_Witness ==
    /\ weather.returned # <<>>
    /\ weather.last_update > StartTime
    /\ now > weather.last_update
    /\ now - weather.last_update < 180
    /\ weather.activity # "normal"

\* ------------------------------------------------- make_decision on threads

EmittedBy(w) ==
    IF threads[w].pc = "return" THEN threads[w].commands ELSE <<>>

\* C18: when two SendTelemetry calls for the same spacecraft run at the same time on
\* the thread pool, at most one of them passes the cooldown gate and emits commands
\* within any 10-second window.
C18_OneEmitterPerWindow ==
    \A v, w \in Workers :
        (/\ v # w
         /\ EmittedBy(v) # <<>> /\ EmittedBy(w) # <<>>
         /\ threads[v].telemetry.spacecraft_id = threads[w].telemetry.spacecraft_id)
        => \/ threads[v].current_time - threads[w].current_time >= CommandCooldown
           \/ threads[w].current_time - threads[v].current_time >= CommandCooldown

\* ------------------------------------------------------------ make_decision

\* C19: a make_decision call made less than 10 seconds after the last command issued
\* to the spacecraft returns an empty command list, whatever the findings, mode,
\* energy or temperature of the report.
C19_CooldownGate ==
    (decision.called
     /\ decision.current_time - decision.before.last_command_time < 10) =>
        /\ decision.commands = <<>>
        /\ decision.after = decision.before

\* a call within the window whose report would otherwise force SAFE
C19_Witness ==
    /\ decision.called
    /\ decision.before.last_command_time >= StartTime
    /\ decision.current_time - decision.before.last_command_time < 10
    /\ Len(decision.anomalies) > 1
    /\ decision.telemetry.energy_level <= critical_energy
    /\ decision.telemetry.mode # "SAFE"
    /\ decision.commands = <<>>

ModeChangesIn(commands) ==
    {i \in 1..Len(commands) : commands[i].command_type = "MODE_CHANGE"}

\* C20: a single make_decision call returns at most one MODE_CHANGE command.
C20_OneModeChange ==
    decision.called => Cardinality(ModeChangesIn(decision.commands)) <= 1

ThermalIn(commands) ==
    {i \in 1..Len(commands) : commands[i].command_type = "THERMAL_CONTROL"}

OnlySafeModeChanges ==
    \A i \in ModeChangesIn(decision.commands) :
        IsModeChange(decision.commands[i], "SAFE")

\* C21 as stated: in any cycle in which the critical-escalation condition holds the
\* call emits no THERMAL_CONTROL command and no MODE_CHANGE other than SAFE, also
\* when the spacecraft is already in SAFE mode.
C21_EscalationPreempts ==
    (decision.called /\ CooldownClear /\ EscalationStated) =>
        /\ ThermalIn(decision.commands) = {}
        /\ OnlySafeModeChanges

\* C21 amended: in any cycle in which the report has at least one finding and the
\* critical-escalation condition holds, the call emits no MODE_CHANGE other than
\* SAFE, and no THERMAL_CONTROL unless the spacecraft is already in SAFE mode; in
\* SAFE mode it emits no MODE_CHANGE at all.
C21_EscalationWithFindingsPreempts ==
    (decision.called /\ CooldownClear /\ decision.anomalies # <<>> /\ EscalationStated) =>
        /\ OnlySafeModeChanges
        /\ decision.telemetry.mode # "SAFE" => ThermalIn(decision.commands) = {}
        /\ decision.telemetry.mode = "SAFE" => ModeChangesIn(decision.commands) = {}

\* an escalation in SAFE mode that the thermal rule follows
C21_Witness ==
    /\ decision.called /\ CooldownClear
    /\ Len(decision.anomalies) > 1
    /\ decision.telemetry.mode = "SAFE"
    /\ ThermalIn(decision.commands) # {}

StoredHistory == spacecraft_history[decision.telemetry.spacecraft_id]

\* C22: a make_decision call that returns a non-empty command list sets the
\* spacecraft's last-command timestamp to that call's time, and a call that returns
\* an empty list leaves the timestamp unchanged.
C22_StampFollowsCommands ==
    decision.called =>
        /\ decision.commands # <<>> =>
              StoredHistory.last_command_time = decision.current_time
        /\ decision.commands = <<>> =>
              StoredHistory.last_command_time = decision.before.last_command_time

\* the critical branch returned a command after an earlier command, and the
\* timestamp moved to the time of the call
C22_Witness ==
    /\ decision.called
    /\ OnlySafe
    /\ decision.anomalies # <<>>
    /\ decision.before.last_command_time >= StartTime
    /\ StoredHistory.last_command_time = decision.current_time
    /\ StoredHistory.last_command_time > decision.before.last_command_time

\* C23: whenever the cooldown is clear, energy is at most 30 and the reported mode is
\* not SAFE, the returned commands include MODE_CHANGE{SAFE}; no MODE_CHANGE{SAFE} is
\* emitted when the reported mode is already SAFE.
C23_LowEnergyEntry ==
    decision.called =>
        /\ (/\ CooldownClear
            /\ decision.telemetry.energy_level <= 30
            /\ decision.telemetry.mode # "SAFE") => Emits("SAFE")
        /\ decision.telemetry.mode = "SAFE" => ~Emits("SAFE")

\* the low-energy rule fired at the threshold itself, with no findings
C23_Witness ==
    /\ decision.called /\ CooldownClear
    /\ decision.telemetry.energy_level = 30
    /\ decision.telemetry.mode = "NORMAL"
    /\ decision.anomalies = <<>>
    /\ Emits("SAFE")

EmitsThermal(action) ==
    \E i \in 1..Len(decision.commands) :
        /\ decision.commands[i].command_type = "THERMAL_CONTROL"
        /\ decision.commands[i].parameters = <<"action", action>>

\* the call got as far as the thermal rule: not stopped by the cooldown, nor by the
\* return of the critical branch
ReachesThermalRule ==
    /\ decision.called /\ CooldownClear
    /\ ~(/\ decision.anomalies # <<>>
         /\ EscalationStated
         /\ decision.telemetry.mode # "SAFE")

\* C24: a make_decision call that reaches the thermal rule emits
\* THERMAL_CONTROL{COOLING} exactly when 40 < temperature < 50 and
\* THERMAL_CONTROL{HEATING} exactly when -50 < temperature < -40, never both.
C24_ThermalRule ==
    ReachesThermalRule =>
        /\ EmitsThermal("COOLING") <=>
              (40 < decision.telemetry.temperature /\ decision.telemetry.temperature < 50)
        /\ EmitsThermal("HEATING") <=>
              (-50 < decision.telemetry.temperature /\ decision.telemetry.temperature < -40)
        /\ Cardinality(ThermalIn(decision.commands)) <= 1

\* a thermal command returned together with a MODE_CHANGE command
C24_Witness ==
    /\ ReachesThermalRule
    /\ EmitsThermal("HEATING")
    /\ decision.telemetry.temperature = -49
    /\ ModeChangesIn(decision.commands) # {}

SomeTargetInRange ==
    \E i \in 1..Len(science_targets) :
        science_targets[i].active /\ InRange(decision.telemetry.position, science_targets[i])

\* C25: a MODE_CHANGE{mode: NORMAL} ending a science observation (the report's mode
\* is SCIENCE) is emitted only when no active science target is within 1000
\* distance units of the position; while some active target is in range, the
\* observation is never ended.
C25_ScienceEndsOnlyOutOfRange ==
    (decision.called /\ decision.telemetry.mode = "SCIENCE" /\ Emits("NORMAL")) =>
        ~SomeTargetInRange

MaintenanceTimes(id) ==
    { i \in 1..Len(CommandLog(id)) :
        /\ CommandLog(id)[i].type = "MODE_CHANGE"
        /\ CommandLog(id)[i].params = <<"mode", "MAINTENANCE">> }

\* C26: MODE_CHANGE{mode: MAINTENANCE} is emitted only when more than 300 s have
\* passed since the recorded last maintenance, the reported mode is neither SAFE nor
\* MAINTENANCE and energy is above 60; the time is recorded, and two MAINTENANCE
\* commands for one spacecraft are more than 300 s apart.
C26_MaintenanceSchedule ==
    /\ (decision.called /\ Emits("MAINTENANCE")) =>
          /\ decision.current_time - decision.before.last_maintenance > 300
          /\ decision.telemetry.mode \notin {"SAFE", "MAINTENANCE"}
          /\ decision.telemetry.energy_level > 60
          /\ StoredHistory.last_maintenance = decision.current_time
    /\ \A id \in Spacecraft :
          \A i, j \in MaintenanceTimes(id) :
              i < j => CommandLog(id)[j].time - CommandLog(id)[i].time > 300

\* two MAINTENANCE commands on the log of one spacecraft
C26_Witness ==
    \E id \in Spacecraft : Cardinality(MaintenanceTimes(id)) >= 2

NormalCommanded(id) ==
    \E i \in 1..Len(CommandLog(id)) :
        /\ CommandLog(id)[i].type = "MODE_CHANGE"
        /\ CommandLog(id)[i].params = <<"mode", "NORMAL">>

\* maintenance of the spacecraft has started, more than 30 s before the last reading
\* of the clock
MaintenanceStarted(id) ==
    /\ MaintenanceCommanded(id)
    /\ spacecraft_history[id].last_maintenance < LastReading - 30

\* a call on a MAINTENANCE report that emits the completion command iff more than
\* 30 s have passed since the recorded maintenance start
CompletionOnTime ==
    (ReachesThermalRule /\ decision.telemetry.mode = "MAINTENANCE") =>
        (Emits("NORMAL") <=>
            decision.current_time - decision.before.last_maintenance > 30)

FieldsSent(message) == DOMAIN DataDict(message)

\* the fields the bandwidth mode selects
FieldsSelected(bandwidth) ==
    {f \in DOMAIN field_priorities : field_priorities[f] \in AllowedPriorities(bandwidth)}

\* C28: the data the relay sends to the receiver for a report is restricted to the
\* field set selected by the current bandwidth mode: in critical, low or normal
\* mode, no field excluded by that mode reaches the receiver.
C28_SentFieldsFollowMode ==
    (relay.pc # "idle" /\ relay.bandwidth \in {"critical", "low", "normal"}) =>
        \A i \in 1..Len(relay.sends) :
            FieldsSent(relay.sends[i].sent) \subseteq FieldsSelected(relay.bandwidth)

RECURSIVE Power(_, _)
Power(b, n) == IF n = 0 THEN 1 ELSE b * Power(b, n - 1)

FailedSends == Cardinality(Sends(PrimaryAddress, FALSE))

\* no wait follows the last attempt: a wait after each failed attempt but the third
NoWaitAfterLast ==
    Len(relay.waits) = IF FailedSends < 3 THEN FailedSends ELSE 2

FromOneReport(id, i) ==
    \E k \in 1..CallsFor(id) :
        LET b == tracking.buffers[id]
            t == TrackedReport(id, k)
        IN /\ b.positions[i] = t.position
           /\ b.temperatures[i] = t.temperature
           /\ b.energy_levels[i] = t.energy_level
           /\ b.modes[i] = t.mode

\* C30: under concurrent SendTelemetry calls for the same spacecraft, once all calls
\* have finished the four history buffers have equal length, entry i of each buffer
\* comes from the same report, and each buffer holds min(n, 100) entries after n
\* reports.
C30_NoLostOrTornUpdate ==
    (\A w \in Workers : threads[w].pc = "idle") =>
        \A id \in DOMAIN tracking.buffers :
            LET b == tracking.buffers[id]
            IN /\ Len(b.temperatures) = Len(b.positions)
               /\ Len(b.energy_levels) = Len(b.positions)
               /\ Len(b.modes) = Len(b.positions)
               /\ Len(b.positions) = Smaller(CallsFor(id), max_history)
               /\ \A i \in 1..Len(b.positions) :
                     i <= Len(b.temperatures) /\ i <= Len(b.energy_levels)
                         /\ i <= Len(b.modes) => FromOneReport(id, i)

\* -------------------------------------------------------------- SendTelemetry

\* the processed copy still holds what the stage that built it from the request
\* wrote: the identity, the time, the offset and noisy measurements, the energy level
\* and the mode of the request
BuiltFromRequest ==
    \E noise \in Noises :
        [relay.processed EXCEPT !.alert_level = ""] =
            ProcessedTelemetry(relay.request, noise)

\* C31: SendTelemetry never modifies the inbound report: the derived values (noise,
\* position offsets, alert level) are in the processed copy, and what one stage wrote
\* to the copy is still there after the later stages, up to the message that is sent.
C31_ProcessedCopyKeepsFields ==
    relay.pc # "idle" =>
        /\ [relay.request EXCEPT !.timestamp = 0] \in RelayRequests
        /\ "alert_level" \notin DOMAIN relay.request
        /\ BuiltFromRequest
        /\ relay.processed.alert_level = alert_levels[relay.request.spacecraft_id]
        /\ decision.telemetry = relay.processed
        /\ \A i \in 1..Len(relay.sends) : relay.sends[i].sent = relay.processed

\* a report with findings that was sent with noise on its measurements and an alert
\* level other than NOMINAL
C31_Witness ==
    /\ relay.pc = "done"
    /\ relay.sends # <<>>
    /\ relay.anomalies # <<>>
    /\ relay.processed.alert_level = "WARNING"
    /\ relay.processed.temperature # relay.request.temperature

\* --------------------------------------------------- DeepSpaceCommSimulator

\* 1% + 10% x min(1, distance / 50 AU) + 20% x solar interference, times 50 x 10000
StatedProbability50 ==
    5000 + 1000 * Smaller(50, comm.distance_au) + 1000 * comm.solar_interference

\* C32: the packet-loss probability is 1% + 10% x min(1, distance/50 AU) + 20% x
\* solar interference; it does not decrease as the distance grows, is the same for
\* every distance of 50 AU and more, and for a non-negative distance stays within
\* [1%, 31%].
C32_LossProbability ==
    comm.called =>
        /\ 50 * comm.total_probability = StatedProbability50
        /\ \A d \in Distances :
              /\ d >= comm.distance_au =>
                    TotalProbability(d, comm.solar_interference) >= comm.total_probability
              /\ (d >= 50 /\ comm.distance_au >= 50) =>
                    TotalProbability(d, comm.solar_interference) = comm.total_probability
        /\ comm.distance_au >= 0 =>
              (100 <= comm.total_probability /\ comm.total_probability <= 3100)
        /\ comm.solar_interference \in 0..100

\* the highest probability: 80 AU away, the interference set to 2.5 and clamped to 1
C32_Witness ==
    /\ comm.called
    /\ comm.distance_au = 80
    /\ comm.solar_interference = 100
    /\ comm.total_probability = 3100
    /\ comm.lost

\* ------------------------------------------------------------ make_decision

\* C33: while a spacecraft reports SAFE mode, make_decision emits
\* MODE_CHANGE{mode: NORMAL} only if energy is above 60 and the strike counter is 0;
\* in a cycle that has findings it emits no MODE_CHANGE out of SAFE mode.
C33_LeavesSafeOnlyWhenRecovered ==
    (decision.called /\ decision.telemetry.mode = "SAFE") =>
        /\ Emits("NORMAL") =>
              /\ decision.telemetry.energy_level > 60
              /\ decision.after.anomaly_count = 0
              /\ decision.anomalies = <<>>
        /\ \A mode \in Modes \ {"SAFE", "NORMAL"} : ~Emits(mode)

\* a spacecraft in SAFE mode with one strike left and no findings is commanded back
C33_Witness ==
    /\ decision.called
    /\ decision.telemetry.mode = "SAFE"
    /\ decision.before.anomaly_count = 1
    /\ decision.anomalies = <<>>
    /\ Emits("NORMAL")

\* -------------------------------------------------------------- SendTelemetry

BandwidthFor(alert) ==
    IF alert = "CRITICAL" THEN "critical"
    ELSE IF alert = "WARNING" THEN "low"
    ELSE "normal"

\* C34: for any interleaving of reports from several spacecraft, the bandwidth mode
\* used to compress a spacecraft's report matches that spacecraft's own alert level
\* after the report is counted: CRITICAL -> critical, WARNING -> low, NOMINAL ->
\* normal.
C34_BandwidthFollowsOwnAlert ==
    relay.pc # "idle" =>
        relay.bandwidth = BandwidthFor(alert_levels[relay.request.spacecraft_id])

\* the counters and alert levels after every report: the count is not negative and
\* a count of 0 goes with NOMINAL
CountAndAlertAgree ==
    \A id \in DOMAIN anomaly_count :
        /\ anomaly_count[id] >= 0
        /\ anomaly_count[id] = 0 => alert_levels[id] = "NOMINAL"
        /\ alert_levels[id] = "CRITICAL" => anomaly_count[id] > 0

\* a report leaves a spacecraft at CRITICAL only if it took the count above 5, or
\* the spacecraft was at CRITICAL and its count is not back at 0
CriticalOnlyAboveFive ==
    \A id \in DOMAIN anomaly_count' :
        alert_levels'[id] = "CRITICAL" =>
            \/ anomaly_count'[id] > 5
            \/ /\ id \in DOMAIN alert_levels
               /\ alert_levels[id] = "CRITICAL"
               /\ anomaly_count'[id] > 0

\* C35: after every processed report the spacecraft's anomaly count is >= 0, its
\* alert level is NOMINAL whenever the count is 0, and its alert level is CRITICAL
\* only if the count exceeded 5 at some report since the count was last 0.
C35_CountAndAlert ==
    /\ []CountAndAlertAgree
    /\ [][CriticalOnlyAboveFive]_vars

\* a spacecraft still at CRITICAL with its count back under the threshold
C35_Witness ==
    \E id \in DOMAIN anomaly_count :
        alert_levels[id] = "CRITICAL" /\ anomaly_count[id] = 4

\* ------------------------------------------------------------ make_decision

\* a make_decision call is made and the cooldown suppresses it
SuppressedCall ==
    /\ ~decision.called /\ decision'.called
    /\ decision'.before.last_command_time > decision'.current_time - 10

\* the four buffers of the spacecraft with the report appended
ReportAppended(id, t) ==
    /\ id \in DOMAIN tracking.buffers
    /\ tracking'.buffers[id].positions = Append(tracking.buffers[id].positions, t.position)
    /\ tracking'.buffers[id].temperatures =
           Append(tracking.buffers[id].temperatures, t.temperature)
    /\ tracking'.buffers[id].energy_levels =
           Append(tracking.buffers[id].energy_levels, t.energy_level)
    /\ tracking'.buffers[id].modes = Append(tracking.buffers[id].modes, t.mode)

\* C36: a make_decision call suppressed by the cooldown changes nothing in the
\* spacecraft's history except appending the report to the four ring buffers: the
\* strike counter, last-command timestamp, last-maintenance timestamp and command
\* history are left unchanged.
C36_SuppressedCallFrame ==
    [][SuppressedCall =>
          /\ decision'.commands = <<>>
          /\ spacecraft_history' = spacecraft_history
          /\ command_history' = command_history
          /\ ReportAppended(decision'.telemetry.spacecraft_id, decision'.telemetry)]_vars

\* a suppressed call on a report with findings, the third report in the buffers
C36_Witness ==
    /\ decision.called
    /\ decision.before.last_command_time > decision.current_time - 10
    /\ decision.anomalies # <<>>
    /\ Len(tracking.buffers[decision.telemetry.spacecraft_id].positions) = 3
    /\ Len(tracking.buffers[decision.telemetry.spacecraft_id].modes) = 3

\* ---------------------------------------------------------- ReceiverService

\* C37: in the receiver the lost-packet counter increases only when a report's
\* sequence number skips ahead of the previous report from the same spacecraft, and
\* the received-packet counter increases by exactly 1 per handled report, for any
\* interleaving of reports from several spacecraft.
C37_ReceiverCounters ==
    receiver.report # <<>> =>
        LET report == receiver.report[1]
        IN /\ receiver.packets_received = report.received_before + 1
           /\ receiver.packets_lost > report.lost_before =>
                 report.sequence_num > report.previous + 1
           /\ receiver.packets_lost >= report.lost_before

\* as C37, for the lost-packet counter alone
LostOnlyOnSkip ==
    receiver.report # <<>> =>
        (receiver.packets_lost > receiver.report[1].lost_before =>
            receiver.report[1].sequence_num > receiver.report[1].previous + 1)

\* ------------------------------------------- SpacecraftSimulator, control_server

\* after a pause message carrying paused = p, the spacecraft's flag is p
FlagAsRequested ==
    simulator.message # <<>> =>
        simulator.paused[simulator.message[1].sc] = simulator.message[1].paused

\* a spacecraft that is paused and stays paused sends nothing and keeps its
\* sequence number
PausedIsSilent ==
    \A sc \in 1..Len(spacecraft_list) :
       simulator.paused[sc] /\ simulator'.paused[sc] =>
          /\ simulator'.sent[sc] = simulator.sent[sc]
          /\ simulator'.sequence_num[sc] = simulator.sequence_num[sc]

\* C38: after the control server handles a dashboard pause request carrying
\* paused = p for a spacecraft, that spacecraft's paused flag equals p, and a paused
\* spacecraft sends no telemetry and does not advance its sequence number until it
\* is resumed.
C38_PauseAsRequested == []FlagAsRequested /\ [][PausedIsSilent]_vars

\* the second half of C38 alone: a paused spacecraft is silent
C38_PausedIsSilent == [][PausedIsSilent]_vars

\* ---------------------------------------------- dashboard, receive_telemetry

\* a list holds the last entries appended to it, at most limit, in the order of
\* their arrival
MostRecentInOrder(list, appended, limit) ==
    /\ Len(list) = Smaller(appended, limit)
    /\ \A i \in 1..Len(list) : list[i].arrival = appended - Len(list) + i

====
